---------------------------- MODULE Spec2Model ----------------------------
(***************************************************************************)
(* A model of the lang-dev repository: the couch-lang lexer, parser and    *)
(* evaluator and the riara lexer and evaluator.  Every component has its   *)
(* own variables and its own specification; a specification leaves the     *)
(* variables of the other components at their initial values.              *)
(*                                                                         *)
(* Characters are one-character strings; "U+00C5" stands for the two-byte  *)
(* character A-with-ring of the lexer test `all_tokens`.  An absent        *)
(* Option is the empty sequence, Some(x) the sequence <<x>>; an absent     *)
(* character is the empty string.                                          *)
(***************************************************************************)
EXTENDS Integers, Sequences, FiniteSets, TLC

VARIABLES
    text,          \* the source text handed to a lexer (a sequence of chars)
    iter,          \* couch-lang IndexedCharIterator: [index, line, column]
    tokens,        \* couch-lang: the tokens LexerIterator::next has returned
    spans,         \* ghost: for each couch token, <<from, to>> char positions consumed for it
    exhausted,     \* couch-lang: make_token has returned None
    r_index,       \* riara Lexer.index
    r_line,        \* riara Lexer.line
    r_col,         \* riara Lexer.col
    r_current,     \* riara Lexer.current ("" is None)
    r_tokens,      \* riara: the tokens next_token has returned (Eof included)
    r_spans,       \* ghost: for each riara token, <<from, to>> char positions consumed for it
    r_errors,      \* riara: the lexer's ErrorCollector, a sequence of [pos, message]
    r_panicked,    \* riara: a str slice in next_token was out of range or off a char boundary
    p_tokens,      \* couch-lang Parser: the tokens its iterator yields, each with its lexeme
    p_next,        \* couch-lang Parser.iter: how many tokens it has taken
    p_parsed,      \* couch-lang Parser: what parse_expression returned (an Option)
    outer_context, \* couch-lang Evaluator: the outer HashMap<String, IdentifierType>
    inner_context, \* couch-lang Evaluator: the inner HashMap<String, IdentifierType>
    c_remaining,   \* couch-lang evaluate_statements: statements the iterator still holds
    c_statements,  \* ghost: the statements evaluate_statement was called with, in order
    c_expression,  \* ghost: the expression evaluate_expression was called with (an Option)
    c_result,      \* couch-lang: what the last call returned (an Option<Value>)
    c_panic,       \* couch-lang: the message of the panic that ended the last call (an Option)
    c_before,      \* ghost: the two contexts as they were before the last call
    stack_depth,   \* riara Evaluator.stack_depth
    symbols,       \* riara Evaluator.symbols: a sequence of [stack_depth, id, value]
    rt_frames,     \* riara eval_expr: the Block expressions being evaluated, outermost first
    rt_scopes,     \* ghost: for each depth 0..stack_depth, the names defined there and their values
    rt_pending,    \* riara eval_expr: the result a nested eval_expr has just returned (an Option)
    rt_exited,     \* ghost: the result of the block that has just left its scope, and the
                   \* bindings before it was entered (an Option)
    rt_result,     \* riara: what the outermost eval_expr returned (an Option)
    ix_subject,    \* riara Expr::Index: the value of the subject
    ix_value,      \* riara Expr::Index: the value of the index
    ix_result,     \* riara Expr::Index: what eval_expr returned (an Option)
    rb_expr,       \* riara Expr::Binary: the operator and the values of its two sides (an Option)
    rb_result,     \* riara Expr::Binary: what eval_expr returned (an Option)
    rb_panic,      \* riara Expr::Binary: the message eval_expr panicked with (an Option)
    q_tokens,      \* riara Parser: the tokens its lexer yields before Eof, each with its value
    q_current,     \* riara Parser.current: the number of the token it holds
    q_errors,      \* riara Parser: the messages it has added to the ErrorCollector
    q_expr,        \* riara Parser: what parse returned (an Option)
    q_stuck,       \* riara Parser: "", or how parse fails to return: "panic" or "hang"
    m_errors,      \* riara main: the merged errors of parser and lexer (an Option)
    m_evaluated    \* riara main: the AST it has called Evaluator::eval_expr on (an Option)

couchLexVars == <<iter, tokens, spans, exhausted>>
riaraLexVars == <<r_index, r_line, r_col, r_current, r_tokens, r_spans, r_errors, r_panicked>>
parserVars == <<p_tokens, p_next, p_parsed>>
evaluatorVars ==
    <<outer_context, inner_context, c_remaining, c_statements, c_expression, c_result,
      c_panic, c_before>>
scopeVars == <<stack_depth, symbols, rt_frames, rt_scopes, rt_pending, rt_exited, rt_result>>
indexVars == <<ix_subject, ix_value, ix_result>>
binaryVars == <<rb_expr, rb_result, rb_panic>>
runtimeVars == <<scopeVars, indexVars, binaryVars>>
mainVars == <<m_errors, m_evaluated>>
riaraParserVars == <<q_tokens, q_current, q_errors, q_expr, q_stuck, mainVars>>
riaraVars == <<runtimeVars, riaraParserVars>>
vars == <<text, couchLexVars, riaraLexVars, parserVars, evaluatorVars, riaraVars>>

-----------------------------------------------------------------------------
(* Bounds *)

MaxTextLen == 4

MaxTokens == 5

\* The most statements a list handed to evaluate_statements holds.
MaxStatements == 3

\* The chars a statement takes in its text, the blanks after it included.
StatementWidth == 20

\* The longest text with comments given to the couch-lang lexer.
MaxCommentedLen == 6

\* The deepest nesting of riara blocks.
MaxDepth == 2

\* The longest riara string, tuple or array that is indexed.
MaxElements == 2

\* The longest sequence of tokens the riara parser is given.
MaxParsed == 5

-----------------------------------------------------------------------------
(* Characters *)

MultiByte == "U+00C5"

Digits == {"0", "1", "2", "3", "4", "5", "6", "7", "8", "9"}

Letters ==
    {"a", "b", "c", "d", "e", "f", "g", "h", "i", "j", "k", "l", "m", "n", "o", "p", "q",
     "r", "s", "t", "u", "v", "w", "x", "y", "z", "A", "Z", "_"}

\* char::len_utf8
Utf8Len(c) == IF c = MultiByte THEN 2 ELSE 1

CouchAlphabet == {"5", ".", " ", "\n", "\t", "\r", "a", "/", "*", "=", MultiByte}

CommentAlphabet == {"5", " ", "\n", "/", "*", MultiByte}

SlashAlphabet == {"5", "\n", "/", "*", "="}

RiaraAlphabet == {"5", " ", "\n", "i", "n", "\"", "\\", "+", MultiByte}

SharedAlphabet == {"5", " ", "\n", "a", "=", "+", MultiByte}

RECURSIVE SeqSum(_)
SeqSum(s) == IF s = <<>> THEN 0 ELSE Head(s) + SeqSum(Tail(s))

\* The byte offset of char position p (0-based) of t, as str indexing sees it.
ByteOffset(t, p) == SeqSum([k \in 1..p |-> Utf8Len(t[k])])

\* The bytes of t: byte j of the char at position p is <<p, j>>.
RECURSIVE Bytes(_, _)
Bytes(t, p) ==
    IF p > Len(t) THEN <<>>
    ELSE [j \in 1..Utf8Len(t[p]) |-> <<p, j>>] \o Bytes(t, p + 1)

\* &input[index..index + length]: the bytes at the offsets [index, index+length).
\* Offsets beyond the text give the bytes that exist (Rust panics there).
ByteSlice(t, index, length) ==
    LET bs == Bytes(t, 1)
        lo == index + 1
        hi == IF index + length <= Len(bs) THEN index + length ELSE Len(bs)
    IN  IF lo > hi THEN <<>> ELSE SubSeq(bs, lo, hi)

\* The bytes of the chars at positions [from, to) (0-based).
CharBytes(t, from, to) ==
    LET bs == Bytes(t, 1)
        lo == ByteOffset(t, from) + 1
        hi == ByteOffset(t, to)
    IN  IF lo > hi THEN <<>> ELSE SubSeq(bs, lo, hi)


-----------------------------------------------------------------------------
(* couch-lang lexer: IndexedCharIterator and Lexer *)

\* IndexedCharIterator::new
NewIter == [index |-> 0, line |-> 1, column |-> 1]

\* Peekable::peek on the char iterator: the next char's value, "" for None.
Peek(t, it) == IF it.index < Len(t) THEN t[it.index + 1] ELSE ""

\* Mutant of IterNext: a line feed starts a line but leaves the column.
IterNextKeepsColumn(t, it) ==
    IF Peek(t, it) = "" THEN it
    ELSE [index  |-> it.index + 1,
          line   |-> IF Peek(t, it) = "\n" THEN it.line + 1 ELSE it.line,
          column |-> IF Peek(t, it) = "\n" THEN it.column ELSE it.column + 1]

\* IndexedCharIterator::next: index counts chars; a line feed starts a line.
IterNext(t, it) ==
    IF Peek(t, it) = "" THEN it
    ELSE [index  |-> it.index + 1,
          line   |-> IF Peek(t, it) = "\n" THEN it.line + 1 ELSE it.line,
          column |-> IF Peek(t, it) = "\n" THEN 1 ELSE it.column + 1]

Token(variant, it, length) ==
    [variant |-> variant, index |-> it.index, length |-> length,
     line |-> it.line, column |-> it.column]

\* What a lexing function returns: the Option<Token>, the iterator afterwards,
\* and (ghost) the char position where the token's first char was taken.
Lexed(tok, it, from) == [token |-> tok, iter |-> it, from |-> from]

\* Lexer::make_single_token
MakeSingleToken(t, it, variant) ==
    Lexed(<<Token(variant, it, Utf8Len(Peek(t, it)))>>, IterNext(t, it), it.index)

\* The keyword table of make_keyword_or_identifier.
KeywordVariant(word) ==
    CASE word = <<"f", "n">> -> "FnKeyword"
      [] word = <<"l", "e", "t">> -> "LetKeyword"
      [] word = <<"m", "u", "t">> -> "MutKeyword"
      [] word = <<"r", "e", "t", "u", "r", "n">> -> "ReturnKeyword"
      [] OTHER -> "Identifier"

\* The loop of make_keyword_or_identifier: the iterator after the last
\* identifier char.
RECURSIVE IdentifierEnd(_, _)
IdentifierEnd(t, it) ==
    IF Peek(t, it) \in Digits \cup Letters
    THEN IdentifierEnd(t, IterNext(t, it))
    ELSE it

\* Lexer::make_keyword_or_identifier; text.len() is the byte length of the word.
MakeKeywordOrIdentifier(t, it) ==
    LET end  == IdentifierEnd(t, IterNext(t, it))
        word == SubSeq(t, it.index + 1, end.index)
    IN  Lexed(<<Token(KeywordVariant(word), it,
                      SeqSum([k \in 1..Len(word) |-> Utf8Len(word[k])]))>>,
              end, it.index)

\* Lexer::make_single_or_double_token
MakeSingleOrDoubleToken(t, it, single_variant, second_char, second_variant) ==
    LET after == IterNext(t, it)
    IN  IF Peek(t, after) = second_char
        THEN Lexed(<<Token(second_variant, it, 2)>>, IterNext(t, after), it.index)
        ELSE Lexed(<<Token(single_variant, it, 1)>>, after, it.index)

\* The loop of make_number: `it` is the iterator, `start` the iterator at the
\* first digit, `length` and `dot_has_appeared` the loop's variables.
RECURSIVE NumberLoop(_, _, _, _, _)
\* Mutant of NumberLoop: the second '.' ends the Error token without being consumed.
NumberLoopLeavesSecondDot(t, start, it, length, dot_has_appeared) ==
    LET c == Peek(t, it)
        variant == IF dot_has_appeared THEN "Float" ELSE "Integer"
    IN  CASE c = "" ->
               Lexed(<<Token(variant, start, length)>>, it, start.index)
          [] c \in Digits ->
               NumberLoop(t, start, IterNext(t, it), length + 1, dot_has_appeared)
          [] c = "." /\ dot_has_appeared ->
               Lexed(<<Token("Error", start, length)>>, it, start.index)
          [] c = "." /\ ~dot_has_appeared ->
               NumberLoop(t, start, IterNext(t, it), length + 1, TRUE)
          [] OTHER ->
               Lexed(<<Token(variant, start, length)>>, it, start.index)

NumberLoop(t, start, it, length, dot_has_appeared) ==
    LET c == Peek(t, it)
        variant == IF dot_has_appeared THEN "Float" ELSE "Integer"
    IN  CASE c = "" ->
               Lexed(<<Token(variant, start, length)>>, it, start.index)
          [] c \in Digits ->
               NumberLoop(t, start, IterNext(t, it), length + 1, dot_has_appeared)
          [] c = "." /\ dot_has_appeared ->
               Lexed(<<Token("Error", start, length + 1)>>, IterNext(t, it), start.index)
          [] c = "." /\ ~dot_has_appeared ->
               NumberLoop(t, start, IterNext(t, it), length + 1, TRUE)
          [] OTHER ->
               Lexed(<<Token(variant, start, length)>>, it, start.index)

\* Lexer::make_number
MakeNumber(t, it) == NumberLoop(t, it, IterNext(t, it), 1, FALSE)

RECURSIVE BlockCommentLoop(_, _)

\* The loop after "/*" also stepping over the char after a `*` that is no `/`.
BlockCommentLoopSkipping(t, it) ==
    CASE Peek(t, it) = "" -> [closed |-> FALSE, iter |-> it]
      [] Peek(t, it) = "*" ->
           LET after == IterNext(t, it)
           IN  CASE Peek(t, after) = "" -> [closed |-> FALSE, iter |-> after]
                 [] Peek(t, after) = "/" -> [closed |-> TRUE, iter |-> IterNext(t, after)]
                 [] OTHER -> BlockCommentLoop(t, IterNext(t, after))
      [] OTHER -> BlockCommentLoop(t, IterNext(t, it))

\* The loop after "/*": [closed, iter]; closed is FALSE when the text ended
\* first (the `?` on peek returns None).
BlockCommentLoop(t, it) ==
    CASE Peek(t, it) = "" -> [closed |-> FALSE, iter |-> it]
      [] Peek(t, it) = "*" ->
           LET after == IterNext(t, it)
           IN  CASE Peek(t, after) = "" -> [closed |-> FALSE, iter |-> after]
                 [] Peek(t, after) = "/" -> [closed |-> TRUE, iter |-> IterNext(t, after)]
                 [] OTHER -> BlockCommentLoop(t, after)
      [] OTHER -> BlockCommentLoop(t, IterNext(t, it))

\* The loop after "//": [closed, iter]; closed is TRUE at a line feed (which
\* is not consumed), FALSE when the text ended first.
RECURSIVE LineCommentLoop(_, _)
LineCommentLoop(t, it) ==
    CASE Peek(t, it) = "" -> [closed |-> FALSE, iter |-> it]
      [] Peek(t, it) = "\n" -> [closed |-> TRUE, iter |-> it]
      [] OTHER -> LineCommentLoop(t, IterNext(t, it))

SingleCharVariant(c) ==
    CASE c = ";" -> "Semicolon"
      [] c = "(" -> "LParenthesis"
      [] c = ")" -> "RParenthesis"
      [] c = "{" -> "LBrace"
      [] c = "}" -> "RBrace"
      [] OTHER -> "Error"

\* The characters make_token skips.
CouchWhitespace == {" ", "\n"}

\* Lexer::make_token, with make_comment_or_slash inlined where it calls back.
RECURSIVE MakeToken(_, _)
MakeToken(t, it) ==
    LET c == Peek(t, it)
    IN  CASE c = "" -> Lexed(<<>>, it, it.index)
          [] c \in Digits -> MakeNumber(t, it)
          [] c \in CouchWhitespace -> MakeToken(t, IterNext(t, it))
          [] c = "=" -> MakeSingleOrDoubleToken(t, it, "Equal", "=", "DoubleEqual")
          [] c \in {";", "(", ")", "{", "}"} -> MakeSingleToken(t, it, SingleCharVariant(c))
          [] c = "-" -> MakeSingleOrDoubleToken(t, it, "Minus", "=", "MinusEqual")
          [] c = "!" -> MakeSingleOrDoubleToken(t, it, "Exclamation", "=", "ExclamationEqual")
          [] c = "*" -> MakeSingleOrDoubleToken(t, it, "Asterisk", "=", "AsteriskEqual")
          [] c = "+" -> MakeSingleOrDoubleToken(t, it, "Plus", "=", "PlusEqual")
          [] c \in Letters -> MakeKeywordOrIdentifier(t, it)
          [] c = "/" ->
               \* make_comment_or_slash
               LET single_token == MakeSingleToken(t, it, "Slash")
                   after == single_token.iter
               IN  CASE Peek(t, after) = "*" ->
                          LET r == BlockCommentLoop(t, IterNext(t, after))
                          IN  IF r.closed THEN MakeToken(t, r.iter)
                              ELSE Lexed(<<>>, r.iter, r.iter.index)
                     [] Peek(t, after) = "/" ->
                          LET r == LineCommentLoop(t, after)
                          IN  IF r.closed THEN MakeToken(t, r.iter)
                              ELSE Lexed(<<>>, r.iter, r.iter.index)
                     [] Peek(t, after) = "=" ->
                          Lexed(<<Token("SlashEqual", it, 2)>>, IterNext(t, after), it.index)
                     [] OTHER -> single_token
          [] OTHER ->
               Lexed(<<Token("Error", it, Utf8Len(c))>>, IterNext(t, it), it.index)

\* LexerIterator::next: one call of make_token.
LexerIteratorNext ==
    /\ ~exhausted
    /\ LET r == MakeToken(text, iter)
       IN  /\ iter' = r.iter
           /\ tokens' = tokens \o r.token
           /\ spans' = IF r.token = <<>> THEN spans
                       ELSE Append(spans, <<r.from, r.iter.index>>)
           /\ exhausted' = (r.token = <<>>)
    /\ UNCHANGED <<text, riaraLexVars, parserVars, evaluatorVars, riaraVars>>

CouchLexInit ==
    /\ iter = NewIter
    /\ tokens = <<>>
    /\ spans = <<>>
    /\ exhausted = FALSE


-----------------------------------------------------------------------------
(* riara lexer *)

\* Whether byte offset `off` of t is a char boundary (str::is_char_boundary).
IsCharBoundary(t, off) == \E p \in 0..Len(t) : ByteOffset(t, p) = off

\* Whether &text[index..index + length] is a valid str slice (else Rust panics).
SliceOk(t, index, length) ==
    /\ IsCharBoundary(t, index)
    /\ IsCharBoundary(t, index + length)

\* The chars of a valid byte slice.
SliceChars(t, index, length) ==
    LET firsts == SelectSeq(ByteSlice(t, index, length), LAMBDA b : b[2] = 1)
    IN  [k \in 1..Len(firsts) |-> t[firsts[k][1]]]

\* The char at 0-based position i of t, "" past the end (Chars::next).
CharAt(t, i) == IF i < Len(t) THEN t[i + 1] ELSE ""

\* Lexer::new
NewLexer(t) == [index |-> 0, line |-> 1, col |-> 1, current |-> CharAt(t, 0)]

\* Lexer::pos
Pos(L) == [index |-> L.index, line |-> L.line, col |-> L.col]

\* Lexer::step: line and col follow the char that becomes current.
Step(t, L) ==
    LET c == CharAt(t, L.index + 1)
    IN  [index   |-> L.index + 1,
         current |-> c,
         line    |-> IF c = "\n" THEN L.line + 1 ELSE L.line,
         col     |-> CASE c = "\n" -> 1
                       [] c = ""   -> L.col
                       [] OTHER    -> L.col + 1]

\* Lexer::token
RToken(L, token_type, pos) ==
    [token_type |-> token_type, pos |-> pos, length |-> L.index - pos.index]

\* What next_token returns: the token, the lexer afterwards, the errors it
\* added, and whether it panicked instead.
RLexed(tok, L, errs) == [token |-> tok, lexer |-> L, errors |-> errs, panicked |-> FALSE]

RPanic(L) ==
    [token |-> RToken(L, "Error", Pos(L)), lexer |-> L, errors |-> <<>>, panicked |-> TRUE]

\* Lexer::add_error
LexerError(pos, message) == [error_type |-> "Lexer", pos |-> pos, message |-> message]

\* The keyword table of next_token, applied to the chars of pos.value(..).
RiaraKeyword(word) ==
    CASE word = <<"f", "a", "l", "s", "e">> -> "False"
      [] word = <<"t", "r", "u", "e">> -> "True"
      [] word = <<"n", "o", "t">> -> "Not"
      [] word = <<"o", "r">> -> "Or"
      [] word = <<"a", "n", "d">> -> "And"
      [] word = <<"i", "n">> -> "In"
      [] word = <<"i", "f">> -> "If"
      [] word = <<"e", "l", "s", "e">> -> "Else"
      [] word = <<"l", "e", "t">> -> "Let"
      [] OTHER -> "Id"

RiaraWhitespace == {" ", "\t", "\n", "\r"}

RiaraPunctuation == {"(", ")", "{", "}", "[", "]", ".", ",", ":", ";", "+", "-", "*", "/", "="}

PunctuationType(c) ==
    CASE c = "(" -> "LParen"   [] c = ")" -> "RParen"
      [] c = "{" -> "LBrace"   [] c = "}" -> "RBrace"
      [] c = "[" -> "LBracket" [] c = "]" -> "RBracket"
      [] c = "." -> "Dot"      [] c = "," -> "Comma"
      [] c = ":" -> "Colon"    [] c = ";" -> "Semicolon"
      [] c = "+" -> "Plus"     [] c = "-" -> "Minus"
      [] c = "*" -> "Asterisk" [] c = "/" -> "Slash"
      [] OTHER -> "Equal"

\* The loops of next_token that step while the current char is in a class.
RECURSIVE StepWhile(_, _, _)
StepWhile(t, L, class) ==
    IF L.current \in class THEN StepWhile(t, Step(t, L), class) ELSE L

RECURSIVE StringLoop(_, _, _)

\* The loop after an opening quote with a backslash that escapes nothing.
StringLoopUnescaped(t, L, pos) ==
    CASE L.current = "\"" ->
           RLexed(RToken(Step(t, L), "String", pos), Step(t, L), <<>>)
      [] L.current = "" ->
           RLexed(RToken(L, "Error", pos), L, <<LexerError(pos, "malformed string literal")>>)
      [] OTHER -> StringLoop(t, Step(t, L), pos)

\* The loop of next_token after an opening quote.
StringLoop(t, L, pos) ==
    CASE L.current = "\\" ->
           LET after == Step(t, L)
           IN  IF after.current = ""
               THEN RLexed(RToken(after, "Error", pos), after,
                           <<LexerError(pos, "malformed string literal")>>)
               ELSE StringLoop(t, Step(t, after), pos)
      [] L.current = "\"" ->
           RLexed(RToken(Step(t, L), "String", pos), Step(t, L), <<>>)
      [] L.current = "" ->
           RLexed(RToken(L, "Error", pos), L, <<LexerError(pos, "malformed string literal")>>)
      [] OTHER -> StringLoop(t, Step(t, L), pos)

\* Lexer::next_token
RECURSIVE NextToken(_, _)
NextToken(t, L) ==
    LET pos == Pos(L)
        c == L.current
    IN  CASE c \in Letters ->
               LET end == StepWhile(t, Step(t, L), Letters \cup Digits)
                   length == end.index - pos.index
               IN  IF SliceOk(t, pos.index, length)
                   THEN RLexed(RToken(end, RiaraKeyword(SliceChars(t, pos.index, length)), pos),
                               end, <<>>)
                   ELSE RPanic(end)
          [] c \in RiaraWhitespace ->
               NextToken(t, StepWhile(t, Step(t, L), RiaraWhitespace))
          [] c \in Digits ->
               LET end == StepWhile(t, Step(t, L), Digits)
               IN  RLexed(RToken(end, "Int", pos), end, <<>>)
          [] c = "\"" -> StringLoop(t, Step(t, L), pos)
          [] c \in RiaraPunctuation ->
               RLexed(RToken(Step(t, L), PunctuationType(c), pos), Step(t, L), <<>>)
          [] c = "" -> RLexed(RToken(L, "Eof", pos), L, <<>>)
          [] OTHER ->
               RLexed(RToken(Step(t, L), "Error", pos), Step(t, L),
                      <<LexerError(pos, "invalid char")>>)

RiaraLexer == [index |-> r_index, line |-> r_line, col |-> r_col, current |-> r_current]

\* The char position where the token next_token returns starts: after the
\* whitespace it skips first.
TokenStart(t, L) ==
    IF L.current \in RiaraWhitespace THEN StepWhile(t, L, RiaraWhitespace).index ELSE L.index

ReturnedEof == r_tokens # <<>> /\ r_tokens[Len(r_tokens)].token_type = "Eof"

\* One call of Lexer::next_token; after Eof the caller asks no more.
RiaraNextToken ==
    /\ ~r_panicked
    /\ ~ReturnedEof
    /\ LET r == NextToken(text, RiaraLexer)
       IN  /\ r_panicked' = r.panicked
           /\ r_index' = r.lexer.index
           /\ r_line' = r.lexer.line
           /\ r_col' = r.lexer.col
           /\ r_current' = r.lexer.current
           /\ r_errors' = r_errors \o r.errors
           /\ r_tokens' = IF r.panicked THEN r_tokens ELSE Append(r_tokens, r.token)
           /\ r_spans' = IF r.panicked THEN r_spans
                         ELSE Append(r_spans, <<TokenStart(text, RiaraLexer), r.lexer.index>>)
    /\ UNCHANGED <<text, couchLexVars, parserVars, evaluatorVars, riaraVars>>

RiaraLexInit ==
    /\ r_index = NewLexer(text).index
    /\ r_line = NewLexer(text).line
    /\ r_col = NewLexer(text).col
    /\ r_current = NewLexer(text).current
    /\ r_tokens = <<>>
    /\ r_spans = <<>>
    /\ r_errors = <<>>
    /\ r_panicked = FALSE

-----------------------------------------------------------------------------
(* Numbers.  An i64 is an integer; the model's literals are small, so no    *)
(* operation of a checked run leaves the i64 range.  An f64 is a record     *)
(* [c, s, n, d]: class "nan", "inf", "zero" or "fin", sign s (1 or -1) and, *)
(* for "fin", the magnitude n/d in lowest terms.  The model's floats are    *)
(* small dyadic literals and their sums, products and quotients, on which   *)
(* the rational result decides f64 equality.                                *)

Abs(x) == IF x < 0 THEN -x ELSE x

Sign(x) == IF x < 0 THEN -1 ELSE 1

RECURSIVE Gcd(_, _)
Gcd(a, b) == IF b = 0 THEN a ELSE Gcd(b, a % b)

\* i64 `/`: truncates toward zero (b # 0).
TruncDiv(a, b) == Sign(a) * Sign(b) * (Abs(a) \div Abs(b))

NaN == [c |-> "nan", s |-> 1, n |-> 0, d |-> 1]

Inf(sign) == [c |-> "inf", s |-> sign, n |-> 0, d |-> 1]

Zero(sign) == [c |-> "zero", s |-> sign, n |-> 0, d |-> 1]

\* The f64 of the rational num/den (den > 0); an exact zero result is +0.0.
Fin(num, den) ==
    IF num = 0 THEN Zero(1)
    ELSE LET g == Gcd(Abs(num), den)
         IN  [c |-> "fin", s |-> Sign(num), n |-> Abs(num) \div g, d |-> den \div g]

\* The signed numerator of a "fin" or "zero" float over its denominator d.
Num(x) == x.s * x.n

\* f64 unary minus: flips the sign bit (of NaN too, which stays NaN).
FNeg(x) == IF x.c = "nan" THEN NaN ELSE [x EXCEPT !.s = -x.s]

\* f64 `+` (IEEE 754, round to nearest).
FAdd(x, y) ==
    CASE x.c = "nan" \/ y.c = "nan" -> NaN
      [] x.c = "inf" /\ y.c = "inf" -> IF x.s = y.s THEN x ELSE NaN
      [] x.c = "inf" -> x
      [] y.c = "inf" -> y
      [] x.c = "zero" /\ y.c = "zero" -> IF x.s = y.s THEN x ELSE Zero(1)
      [] x.c = "zero" -> y
      [] y.c = "zero" -> x
      [] OTHER -> Fin(Num(x) * y.d + Num(y) * x.d, x.d * y.d)

\* f64 `-`
FSub(x, y) == FAdd(x, FNeg(y))

\* f64 `*`
FMul(x, y) ==
    CASE x.c = "nan" \/ y.c = "nan" -> NaN
      [] (x.c = "inf" /\ y.c = "zero") \/ (x.c = "zero" /\ y.c = "inf") -> NaN
      [] x.c = "inf" \/ y.c = "inf" -> Inf(x.s * y.s)
      [] x.c = "zero" \/ y.c = "zero" -> Zero(x.s * y.s)
      [] OTHER -> [Fin(x.n * y.n, x.d * y.d) EXCEPT !.s = x.s * y.s]

\* f64 `/`
FDiv(x, y) ==
    CASE x.c = "nan" \/ y.c = "nan" -> NaN
      [] (x.c = "inf" /\ y.c = "inf") \/ (x.c = "zero" /\ y.c = "zero") -> NaN
      [] x.c = "inf" \/ y.c = "zero" -> Inf(x.s * y.s)
      [] x.c = "zero" \/ y.c = "inf" -> Zero(x.s * y.s)
      [] OTHER -> [Fin(x.n * y.d, x.d * y.n) EXCEPT !.s = x.s * y.s]

\* f64 `==`: NaN equals nothing, the two zeros are equal.
FEq(x, y) ==
    CASE x.c = "nan" \/ y.c = "nan" -> FALSE
      [] x.c = "zero" /\ y.c = "zero" -> TRUE
      [] OTHER -> x = y

\* The value of a digit char.
DigitValue(c) ==
    CASE c = "0" -> 0 [] c = "1" -> 1 [] c = "2" -> 2 [] c = "3" -> 3 [] c = "4" -> 4
      [] c = "5" -> 5 [] c = "6" -> 6 [] c = "7" -> 7 [] c = "8" -> 8 [] OTHER -> 9

\* The number a run of digits denotes.
RECURSIVE DigitsValue(_)
DigitsValue(ds) ==
    IF ds = <<>> THEN 0
    ELSE 10 * DigitsValue(SubSeq(ds, 1, Len(ds) - 1)) + DigitValue(ds[Len(ds)])

RECURSIVE Pow10(_)
Pow10(k) == IF k = 0 THEN 1 ELSE 10 * Pow10(k - 1)

\* str::parse::<i64> on the lexeme of an Integer token (a run of digits).
ParseI64(lexeme) == DigitsValue(lexeme)

\* str::parse::<f64> on the lexeme of a Float token: digits, one '.', digits.
ParseF64(lexeme) ==
    LET dot  == CHOOSE k \in 1..Len(lexeme) : lexeme[k] = "."
        frac == SubSeq(lexeme, dot + 1, Len(lexeme))
    IN  Fin(DigitsValue(SubSeq(lexeme, 1, dot - 1)) * Pow10(Len(frac)) + DigitsValue(frac),
            Pow10(Len(frac)))

-----------------------------------------------------------------------------
(* couch-lang parser: expressions.  The parser reads a token's lexeme as    *)
(* &text[index..index + length]; the model keeps the lexeme in the token    *)
(* and lays the tokens out on one line, one space apart.                    *)

\* The String of a sequence of chars.
RECURSIVE Str(_)
Str(cs) == IF cs = <<>> THEN "" ELSE Head(cs) \o Str(Tail(cs))

\* A lexer token with its lexeme, starting at char `index` of the line.
PToken(variant, lexeme, index) ==
    [variant |-> variant, lexeme |-> lexeme, index |-> index, length |-> Len(lexeme),
     line |-> 1, column |-> index + 1]

\* The tokens the lexer makes of the lexemes ls written one space apart on one
\* line, the first at char `index`.
RECURSIVE Layout(_, _)
Layout(ls, index) ==
    IF ls = <<>> THEN <<>>
    ELSE <<PToken(Head(ls).variant, Head(ls).lexeme, index)>>
           \o Layout(Tail(ls), index + Len(Head(ls).lexeme) + 1)

Lexeme(variant, lexeme) == [variant |-> variant, lexeme |-> lexeme]

OperandLexemes ==
    {Lexeme("Integer", <<"2", "0">>), Lexeme("Float", <<"2", ".", "5">>),
     Lexeme("Identifier", <<"a">>)}

OperatorLexemes ==
    {Lexeme("Plus", <<"+">>), Lexeme("Minus", <<"-">>), Lexeme("Asterisk", <<"*">>),
     Lexeme("Slash", <<"/">>), Lexeme("DoubleEqual", <<"=", "=">>),
     Lexeme("ExclamationEqual", <<"!", "=">>)}

\* Position::from(&Token)
PositionOf(token) == [index |-> token.index, line |-> token.line, column |-> token.column]

\* Parser::node
Node(value, position) == [value |-> value, position |-> position]

\* The length of the text the tokens came from.
TextLen(ts) == IF ts = <<>> THEN 0 ELSE ts[Len(ts)].index + ts[Len(ts)].length

\* try_peek_or_error at the end of the tokens: an Error node at the end of
\* the (one-line) text.
EndOfFileError(ts) ==
    Node([kind |-> "Error", message |-> "expected token, got end of file"],
         [index |-> TextLen(ts), line |-> 1, column |-> TextLen(ts)])

\* What a parsing function returns: the node and the number of tokens taken.
Parsed(node, next) == [node |-> node, next |-> next]

\* Parser::parse_operand (called with a token to peek at)
ParseOperand(ts, i) ==
    LET token == ts[i + 1]
        value ==
          CASE token.variant = "Identifier" ->
                 [kind |-> "Identifier", name |-> Str(token.lexeme)]
            [] token.variant = "Integer" ->
                 [kind |-> "Integer", v |-> ParseI64(token.lexeme)]
            [] token.variant = "Float" ->
                 [kind |-> "Float", v |-> ParseF64(token.lexeme)]
            [] OTHER ->
                 [kind |-> "Identifier", name |-> "unexpected operand " \o token.variant]
    IN  Parsed(Node(value, PositionOf(token)), i + 1)

\* Parser::parse_unary
RECURSIVE ParseUnary(_, _)
ParseUnary(ts, i) ==
    IF i >= Len(ts) THEN Parsed(EndOfFileError(ts), i)
    ELSE LET token == ts[i + 1]
         IN  IF token.variant \in {"Minus", "Exclamation"}
             THEN LET subject == ParseUnary(ts, i + 1)
                  IN  Parsed(Node([kind |-> "Unary",
                                   variant |-> IF token.variant = "Minus"
                                               THEN "NegateNumber" ELSE "NegateBool",
                                   subject |-> subject.node],
                                  PositionOf(token)),
                             subject.next)
             ELSE ParseOperand(ts, i)

\* The node of a binary level: `left`, already parsed, then the operator at
\* ts[left.next + 1] and `right`.
BinaryNode(variant, left, right) ==
    Parsed(Node([kind |-> "Binary", variant |-> variant,
                 left |-> left.node, right |-> right.node],
                left.node.position),
           right.next)

\* The operator table of parse_multiply_divide.
MultiplyDivideVariant(variant) ==
    CASE variant = "Asterisk" -> "Multiplication"
      [] variant = "Slash" -> "Division"
      [] OTHER -> "None"

\* The operator table of parse_add_subtract.
AddSubtractVariant(variant) ==
    CASE variant = "Plus" -> "Addition"
      [] variant = "Minus" -> "Subtraction"
      [] OTHER -> "None"

\* The operator table of parse_equality.
EqualityVariant(variant) ==
    CASE variant = "DoubleEqual" -> "Equal"
      [] variant = "ExclamationEqual" -> "NotEqual"
      [] OTHER -> "None"

RECURSIVE ParseMultiplyDivide(_, _)
RECURSIVE ParseAddSubtract(_, _)
RECURSIVE ParseEquality(_, _)

\* Parser::parse_multiply_divide once `left` is parsed.
MultiplyDivideAfter(ts, left) ==
    IF left.next >= Len(ts) THEN left
    ELSE IF MultiplyDivideVariant(ts[left.next + 1].variant) = "None" THEN left
    ELSE BinaryNode(MultiplyDivideVariant(ts[left.next + 1].variant), left,
                    ParseMultiplyDivide(ts, left.next + 1))

\* Mutant of ParseMultiplyDivide: the right side is parsed a level lower, by
\* parse_add_subtract.
MultiplyDivideLoose(ts, left) ==
    IF left.next >= Len(ts) THEN left
    ELSE IF MultiplyDivideVariant(ts[left.next + 1].variant) = "None" THEN left
    ELSE BinaryNode(MultiplyDivideVariant(ts[left.next + 1].variant), left,
                    ParseAddSubtract(ts, left.next + 1))

ParseMultiplyDivideLoose(ts, i) == MultiplyDivideLoose(ts, ParseUnary(ts, i))

\* Parser::parse_multiply_divide
ParseMultiplyDivide(ts, i) == MultiplyDivideAfter(ts, ParseUnary(ts, i))

\* Parser::parse_add_subtract once `left` is parsed.
AddSubtractAfter(ts, left) ==
    IF left.next >= Len(ts) THEN left
    ELSE IF AddSubtractVariant(ts[left.next + 1].variant) = "None" THEN left
    ELSE BinaryNode(AddSubtractVariant(ts[left.next + 1].variant), left,
                    ParseAddSubtract(ts, left.next + 1))

\* Mutant of ParseAddSubtract: a loop over the operators, which associates
\* to the left.
RECURSIVE AddSubtractLoop(_, _)
AddSubtractLoop(ts, left) ==
    IF left.next >= Len(ts) THEN left
    ELSE IF AddSubtractVariant(ts[left.next + 1].variant) = "None" THEN left
    ELSE AddSubtractLoop(ts, BinaryNode(AddSubtractVariant(ts[left.next + 1].variant), left,
                                        ParseMultiplyDivide(ts, left.next + 1)))

ParseAddSubtractLeftAssociative(ts, i) == AddSubtractLoop(ts, ParseMultiplyDivide(ts, i))

\* Parser::parse_add_subtract
ParseAddSubtract(ts, i) == AddSubtractAfter(ts, ParseMultiplyDivide(ts, i))

\* Parser::parse_equality once `left` is parsed.
EqualityAfter(ts, left) ==
    IF left.next >= Len(ts) THEN left
    ELSE IF EqualityVariant(ts[left.next + 1].variant) = "None" THEN left
    ELSE BinaryNode(EqualityVariant(ts[left.next + 1].variant), left,
                    ParseEquality(ts, left.next + 1))

\* Parser::parse_equality
ParseEquality(ts, i) == EqualityAfter(ts, ParseAddSubtract(ts, i))

\* Parser::parse_expression (the parser of parser/src/lib.rs)
ParseExpression(ts, i) == ParseEquality(ts, i)

\* try_peek_or_error with `expect:` at the end of the tokens.
ExpectedEndOfFileError(ts, expected) ==
    Node([kind |-> "Error",
          message |-> "expected '" \o expected \o "', got end of file"],
         EndOfFileError(ts).position)

\* assert_equal_variant: the Error node for a token that is not `expected`.
UnexpectedVariantError(expected, token) ==
    Node([kind |-> "Error",
          message |-> "expected '" \o expected \o "', got '" \o token.variant \o "'"],
         PositionOf(token))

\* The `;` that ends a statement whose node is `node`, expected at ts[k + 1];
\* `eof` is the Error node at the end of the tokens.
EndOfStatement(ts, k, node, eof) ==
    IF k >= Len(ts) THEN Parsed(eof, k)
    ELSE IF ts[k + 1].variant # "Semicolon"
         THEN Parsed(UnexpectedVariantError("Semicolon", ts[k + 1]), k)
         ELSE Parsed(node, k + 1)

\* Parser::parse_return once the expression `value` is parsed.
ReturnAfter(ts, i, value) ==
    EndOfStatement(ts, value.next,
                   Node([kind |-> "Return", value |-> <<value.node>>], PositionOf(ts[i + 1])),
                   ExpectedEndOfFileError(ts, "Semicolon"))

\* Parser::parse_return (called at the `return` keyword)
ParseReturn(ts, i) ==
    IF i + 1 >= Len(ts) THEN Parsed(ExpectedEndOfFileError(ts, "Semicolon"), i + 1)
    ELSE IF ts[i + 2].variant = "Semicolon"
         THEN Parsed(Node([kind |-> "Return", value |-> <<>>], PositionOf(ts[i + 1])), i + 2)
         ELSE ReturnAfter(ts, i, ParseExpression(ts, i + 1))

\* Parser::parse_parameter once the `mut`, if any, is taken: the identifier is
\* expected at ts[j + 1].
ParameterAfter(ts, position, mutable, j) ==
    IF j >= Len(ts) THEN Parsed(ExpectedEndOfFileError(ts, "Identifier"), j)
    ELSE Parsed(Node([kind |-> "Item", mutable |-> mutable,
                      identifier |-> ParseOperand(ts, j).node],
                     position),
                j + 1)

\* Parser::parse_parameter
ParseParameter(ts, i) ==
    IF i >= Len(ts) THEN Parsed(EndOfFileError(ts), i)
    ELSE IF ts[i + 1].variant = "MutKeyword"
         THEN ParameterAfter(ts, PositionOf(ts[i + 1]), TRUE, i + 1)
         ELSE ParameterAfter(ts, PositionOf(ts[i + 1]), FALSE, i)

\* Parser::parse_let once the expression `value` is parsed.
LetAfterValue(ts, position, parameter, value) ==
    EndOfStatement(ts, value.next,
                   Node([kind |-> "Let",
                         mutable |-> parameter.node.value.mutable,
                         identifier |-> parameter.node.value.identifier,
                         value |-> value.node],
                        position),
                   ExpectedEndOfFileError(ts, "Semicolon"))

\* Parser::parse_let once the parameter is parsed.
LetAfterParameter(ts, position, parameter) ==
    IF parameter.node.value.kind = "Error" THEN parameter
    ELSE IF parameter.next >= Len(ts)
         THEN Parsed(ExpectedEndOfFileError(ts, "Equal"), parameter.next)
    ELSE IF ts[parameter.next + 1].variant # "Equal"
         THEN Parsed(UnexpectedVariantError("Equal", ts[parameter.next + 1]), parameter.next)
    ELSE IF parameter.next + 1 >= Len(ts)
         THEN Parsed(EndOfFileError(ts), parameter.next + 1)
    ELSE LetAfterValue(ts, position, parameter, ParseExpression(ts, parameter.next + 1))

\* Parser::parse_let (called at the `let` keyword)
ParseLet(ts, i) == LetAfterParameter(ts, PositionOf(ts[i + 1]), ParseParameter(ts, i + 1))

\* The operator table of parse_assignment.
AssignmentVariant(variant) ==
    CASE variant = "Equal" -> "Base"
      [] variant = "AsteriskEqual" -> "Multiplication"
      [] variant = "MinusEqual" -> "Subtraction"
      [] variant = "PlusEqual" -> "Addition"
      [] variant = "SlashEqual" -> "Division"
      [] OTHER -> "None"

\* Parser::parse_assignment once the right side is parsed.
AssignmentAfterRight(ts, left, right) ==
    EndOfStatement(ts, right.next,
                   Node([kind |-> "Assignment", left |-> left.node, right |-> right.node,
                         variant |-> AssignmentVariant(ts[left.next + 1].variant)],
                        left.node.position),
                   EndOfFileError(ts))

\* Parser::parse_assignment once the left side is parsed.
AssignmentAfterLeft(ts, left) ==
    IF left.next >= Len(ts) THEN Parsed(EndOfFileError(ts), left.next)
    ELSE IF AssignmentVariant(ts[left.next + 1].variant) = "None"
         THEN EndOfStatement(ts, left.next,
                             Node([kind |-> "Expression", expression |-> left.node],
                                  left.node.position),
                             EndOfFileError(ts))
         ELSE AssignmentAfterRight(ts, left, ParseExpression(ts, left.next + 1))

\* Parser::parse_assignment
ParseAssignment(ts, i) == AssignmentAfterLeft(ts, ParseExpression(ts, i))

\* Parser::parse_statement; the `fn` keyword reaches todo!("parse fn").
ParseStatement(ts, i) ==
    IF i >= Len(ts) THEN Parsed(EndOfFileError(ts), i)
    ELSE CASE ts[i + 1].variant = "ReturnKeyword" -> ParseReturn(ts, i)
           [] ts[i + 1].variant = "LetKeyword" -> ParseLet(ts, i)
           [] ts[i + 1].variant = "FnKeyword" ->
                Parsed(Node([kind |-> "Panic", message |-> "not yet implemented: parse fn"],
                            PositionOf(ts[i + 1])),
                       i)
           [] OTHER -> ParseAssignment(ts, i)

\* One call of Parser::parse_expression on a new parser.
ParseExpressionCall ==
    /\ p_parsed = <<>>
    /\ \E r \in {ParseExpression(p_tokens, p_next)} :
           /\ p_parsed' = <<r.node>>
           /\ p_next' = r.next
    /\ UNCHANGED <<text, couchLexVars, riaraLexVars, p_tokens, evaluatorVars, riaraVars>>

\* parse_statement has panicked.
ParserPanicked == p_parsed # <<>> /\ p_parsed[Len(p_parsed)].value.kind = "Panic"

\* Parser::parse_statements, one round of its loop: a statement is parsed and
\* pushed.  A panic of parse_statement is pushed as the node Panic, and ends
\* the loop.
ParseStatementCall ==
    /\ p_next < Len(p_tokens)
    /\ ~ParserPanicked
    /\ \E r \in {ParseStatement(p_tokens, p_next)} :
           /\ p_parsed' = Append(p_parsed, r.node)
           /\ p_next' = r.next
    /\ UNCHANGED <<text, couchLexVars, riaraLexVars, p_tokens, evaluatorVars, riaraVars>>

\* Parser::new
ParserInit ==
    /\ p_next = 0
    /\ p_parsed = <<>>

-----------------------------------------------------------------------------
(* couch-lang evaluator.  A Value is a record with its kind; a panic of the *)
(* evaluator (todo!, integer division by zero, panic!) is the record Panic, *)
(* which every caller passes on.  A context is a function from the names it *)
(* binds to IdentifierType records; the statement of a Function binding is  *)
(* never read and is left out.                                              *)

IntegerValue(v) == [kind |-> "Integer", v |-> v]

FloatValue(v) == [kind |-> "Float", v |-> v]

BoolValue(v) == [kind |-> "Bool", v |-> v]

ErrorValue(message, line, column) ==
    [kind |-> "Error", message |-> message, line |-> line, column |-> column]

Panic(message) == [kind |-> "Panic", message |-> message]

\* impl Display for Value
Display(value) ==
    CASE value.kind = "Integer" -> "integer"
      [] value.kind = "Float" -> "float"
      [] value.kind = "Bool" -> "bool"
      [] OTHER -> "error"

\* The decimal digits of r/d after the point (d divides a power of 10).
RECURSIVE FractionDigits(_, _)
FractionDigits(r, d) ==
    IF r = 0 THEN ""
    ELSE ToString((10 * r) \div d) \o FractionDigits((10 * r) % d, d)

\* {:?} of an f64
F64Debug(x) ==
    CASE x.c = "nan" -> "NaN"
      [] x.c = "inf" -> IF x.s = 1 THEN "inf" ELSE "-inf"
      [] x.c = "zero" -> IF x.s = 1 THEN "0.0" ELSE "-0.0"
      [] OTHER -> (IF x.s = 1 THEN "" ELSE "-") \o ToString(x.n \div x.d) \o "."
                  \o (IF x.n % x.d = 0 THEN "0" ELSE FractionDigits(x.n % x.d, x.d))

\* {:#?} of a Value::Integer, Value::Float or Value::Bool
ValueDebug(value) ==
    value.kind \o "(\n    "
    \o (CASE value.kind = "Integer" -> ToString(value.v)
          [] value.kind = "Float" -> F64Debug(value.v)
          [] OTHER -> IF value.v THEN "true" ELSE "false")
    \o ",\n)"

\* Mutant of ValueEq: two values of different kinds are equal.
ValueEqAcrossKinds(a, b) ==
    IF a.kind = "Float" /\ b.kind = "Float" THEN FEq(a.v, b.v)
    ELSE a.kind # b.kind \/ a = b

\* derive(PartialEq) for Value: the same variant with equal fields, an f64
\* field compared as f64.
ValueEq(a, b) ==
    /\ a.kind = b.kind
    /\ IF a.kind = "Float" THEN FEq(a.v, b.v) ELSE a = b

\* The operator `$op` of the trait function `$func_name`.
OperatorToken(func_name) ==
    CASE func_name = "add" -> "+"
      [] func_name = "sub" -> "-"
      [] func_name = "mul" -> "*"
      [] OTHER -> "/"

\* a $op b on i64; a zero divisor panics.
IntegerOperator(op, a, b) ==
    CASE op = "+" -> IntegerValue(a + b)
      [] op = "-" -> IntegerValue(a - b)
      [] op = "*" -> IntegerValue(a * b)
      [] OTHER -> IF b = 0 THEN Panic("attempt to divide by zero")
                  ELSE IntegerValue(TruncDiv(a, b))

\* a $op b on f64
FloatOperator(op, a, b) ==
    CASE op = "+" -> FloatValue(FAdd(a, b))
      [] op = "-" -> FloatValue(FSub(a, b))
      [] op = "*" -> FloatValue(FMul(a, b))
      [] OTHER -> FloatValue(FDiv(a, b))

\* implement_operator!: Ok(value) is the value, Err(message) the record Err.
ImplementOperator(func_name, a, b) ==
    CASE a.kind = "Integer" /\ b.kind = "Integer" ->
           IntegerOperator(OperatorToken(func_name), a.v, b.v)
      [] a.kind = "Float" /\ b.kind = "Float" ->
           FloatOperator(OperatorToken(func_name), a.v, b.v)
      [] OTHER ->
           [kind |-> "Err",
            message |-> "no implementation exists for " \o Display(a) \o " "
                        \o OperatorToken(func_name) \o " " \o Display(b)]

\* implement_operator_assign!: the new value of *self; a mismatch panics.
ImplementOperatorAssign(func_name, a, b) ==
    CASE a.kind = "Integer" /\ b.kind = "Integer" ->
           IntegerOperator(OperatorToken(func_name), a.v, b.v)
      [] a.kind = "Float" /\ b.kind = "Float" ->
           FloatOperator(OperatorToken(func_name), a.v, b.v)
      [] OTHER ->
           Panic("no implementation exists for " \o Display(a) \o " "
                 \o OperatorToken(func_name) \o "== " \o Display(b))

\* inner_context.get(q).or(outer_context.get(q))
Lookup(outer, inner, q) ==
    IF q \in DOMAIN inner THEN <<inner[q]>>
    ELSE IF q \in DOMAIN outer THEN <<outer[q]>>
    ELSE <<>>

\* HashMap::insert
Insert(context, key, value) ==
    [k \in DOMAIN context \cup {key} |-> IF k = key THEN value ELSE context[k]]

\* The trait function evaluate_binary_expression applies for an arithmetic
\* variant.
BinaryFunction(variant) ==
    CASE variant = "Addition" -> "add"
      [] variant = "Subtraction" -> "div"
      [] variant = "Multiplication" -> "mul"
      [] OTHER -> "sub"

\* The match of evaluate_binary_expression on the values of the operands.
BinaryResult(variant, left, right, position) ==
    CASE variant = "Equal" -> BoolValue(ValueEq(left, right))
      [] variant = "NotEqual" -> BoolValue(~ValueEq(left, right))
      [] OTHER ->
           LET result == ImplementOperator(BinaryFunction(variant), left, right)
           IN  IF result.kind = "Err"
               THEN ErrorValue(result.message, position.line, position.column)
               ELSE result

\* The match of evaluate_expression (Expression::Unary) on the value of the
\* subject.
UnaryResult(variant, subject, position) ==
    CASE subject.kind = "Error" -> subject
      [] variant = "NegateNumber" /\ subject.kind = "Integer" -> IntegerValue(-subject.v)
      [] variant = "NegateNumber" /\ subject.kind = "Float" -> FloatValue(FNeg(subject.v))
      [] variant = "NegateBool" /\ subject.kind = "Bool" -> BoolValue(~subject.v)
      [] variant = "NegateBool" ->
           ErrorValue("expected bool, got " \o ValueDebug(subject),
                      position.line, position.column)
      [] OTHER ->
           ErrorValue("expected number, got " \o ValueDebug(subject),
                      position.line, position.column)

RECURSIVE EvaluateExpression(_, _, _)
RECURSIVE EvaluateBinaryExpression(_, _, _)

\* Evaluator::evaluate_binary_expression: the left operand is evaluated
\* first.
EvaluateBinaryExpression(node, outer, inner) ==
    LET left == EvaluateExpression(node.value.left, outer, inner)
    IN  IF left.kind = "Panic" THEN left
        ELSE LET right == EvaluateExpression(node.value.right, outer, inner)
             IN  IF right.kind = "Panic" THEN right
                 ELSE BinaryResult(node.value.variant, left, right, node.position)

\* Evaluator::evaluate_expression
EvaluateExpression(expression, outer, inner) ==
    CASE expression.value.kind = "Integer" -> IntegerValue(expression.value.v)
      [] expression.value.kind = "Float" -> FloatValue(expression.value.v)
      [] expression.value.kind = "Unary" ->
           LET subject == EvaluateExpression(expression.value.subject,
                                             outer, inner)
           IN  IF subject.kind = "Panic" THEN subject
               ELSE UnaryResult(expression.value.variant, subject, expression.position)
      [] expression.value.kind = "Binary" ->
           EvaluateBinaryExpression(expression, outer, inner)
      [] expression.value.kind = "Identifier" ->
           LET found == Lookup(outer, inner, expression.value.name)
           IN  IF found = <<>>
               THEN ErrorValue("identifier " \o expression.value.name
                               \o " is not yet given value",
                               expression.position.line, expression.position.column)
               ELSE IF found[1].type = "Function" THEN Panic("not yet implemented")
               ELSE found[1].value
      [] expression.value.kind = "Error" ->
           ErrorValue(expression.value.message,
                      expression.position.line, expression.position.column)
      [] OTHER -> Panic("not yet implemented")

\* IdentifierType::Value and IdentifierType::Function
ValueBinding(mutable, value) == [type |-> "Value", mutable |-> mutable, value |-> value]

FunctionBinding == [type |-> "Function"]

\* What evaluate_statement leaves: its result (an Option) or its panic, and
\* the two contexts.
Evaluated(result, panic, outer, inner) ==
    [result |-> result, panic |-> panic,
     outer_context |-> outer, inner_context |-> inner]

\* Mutant of AssignFunction: -= and /= take each other's trait function.
AssignFunctionSwapped(variant) ==
    CASE variant = "Addition" -> "add"
      [] variant = "Subtraction" -> "div"
      [] variant = "Multiplication" -> "mul"
      [] OTHER -> "sub"

\* The trait function of a compound AssignmentVariant.
AssignFunction(variant) ==
    CASE variant = "Addition" -> "add"
      [] variant = "Subtraction" -> "sub"
      [] variant = "Multiplication" -> "mul"
      [] OTHER -> "div"

\* The value an assignment stores in a mutable binding holding `value`.
Assigned(variant, value, right) ==
    IF variant = "Base" THEN right
    ELSE ImplementOperatorAssign(AssignFunction(variant), value, right)

\* Some(Value::Error { message, line, column }) at the statement `node`.
AssignError(message, node, outer, inner) ==
    Evaluated(<<ErrorValue(message, node.position.line, node.position.column)>>,
              <<>>, outer, inner)

\* Evaluator::evaluate_statement (Statement::Assignment) once the right side
\* has its value.
Assign(node, identifier, right, outer, inner) ==
    LET found == Lookup(outer, inner, identifier)
    IN  IF found = <<>>
        THEN AssignError("identifier " \o identifier \o " not defined",
                         node, outer, inner)
        ELSE IF found[1].type = "Function"
        THEN AssignError("function definitions are not mutable", node, outer, inner)
        ELSE IF ~found[1].mutable
        THEN AssignError("identifier " \o identifier \o " is not mutable",
                         node, outer, inner)
        ELSE LET value == Assigned(node.value.variant, found[1].value, right)
                 new   == ValueBinding(TRUE, value)
             IN  IF value.kind = "Panic"
                 THEN Evaluated(<<>>, <<value.message>>, outer, inner)
                 ELSE IF identifier \in DOMAIN inner
                 THEN Evaluated(<<>>, <<>>, outer,
                                Insert(inner, identifier, new))
                 ELSE Evaluated(<<>>, <<>>, Insert(outer, identifier, new),
                                inner)

\* A panic of evaluate_statement, which leaves the contexts as they are.
Panicked(message, outer, inner) == Evaluated(<<>>, <<message>>, outer, inner)

\* Evaluator::evaluate_statement
EvaluateStatement(node, outer, inner) ==
    CASE node.value.kind = "Let" ->
           IF node.value.identifier.value.kind # "Identifier"
           THEN Panicked("not yet implemented: handle error", outer, inner)
           ELSE LET value == EvaluateExpression(node.value.value,
                                                outer, inner)
                IN  IF value.kind = "Panic" THEN Panicked(value.message, outer, inner)
                    ELSE Evaluated(<<>>, <<>>, outer,
                                   Insert(inner,
                                          node.value.identifier.value.name,
                                          ValueBinding(node.value.mutable, value)))
      [] node.value.kind = "Assignment" ->
           IF node.value.left.value.kind # "Identifier"
           THEN Panicked("not yet implemented: handle error", outer, inner)
           ELSE LET right == EvaluateExpression(node.value.right,
                                                outer, inner)
                IN  IF right.kind = "Panic" THEN Panicked(right.message, outer, inner)
                    ELSE Assign(node, node.value.left.value.name, right,
                                outer, inner)
      [] node.value.kind = "Expression" ->
           LET value == EvaluateExpression(node.value.expression,
                                           outer, inner)
           IN  IF value.kind = "Panic" THEN Panicked(value.message, outer, inner)
               ELSE Evaluated(<<value>>, <<>>, outer, inner)
      [] OTHER -> Panicked("not yet implemented", outer, inner)

\* The contexts as one record.
Contexts(outer, inner) == [outer_context |-> outer, inner_context |-> inner]

\* Lexemes of the tokens of statements and expressions.
Integer(digits) == Lexeme("Integer", digits)

Identifier(name) == Lexeme("Identifier", name)

Float2_5 == Lexeme("Float", <<"2", ".", "5">>)

LetKeyword == Lexeme("LetKeyword", <<"l", "e", "t">>)

MutKeyword == Lexeme("MutKeyword", <<"m", "u", "t">>)

ReturnKeyword == Lexeme("ReturnKeyword", <<"r", "e", "t", "u", "r", "n">>)

Semicolon == Lexeme("Semicolon", <<";">>)

Minus == Lexeme("Minus", <<"-">>)

Exclamation == Lexeme("Exclamation", <<"!">>)

ArithmeticLexemes ==
    {Lexeme("Plus", <<"+">>), Minus, Lexeme("Asterisk", <<"*">>), Lexeme("Slash", <<"/">>)}

AssignmentLexemes ==
    {Lexeme("Equal", <<"=">>), Lexeme("PlusEqual", <<"+", "=">>),
     Lexeme("MinusEqual", <<"-", "=">>), Lexeme("AsteriskEqual", <<"*", "=">>),
     Lexeme("SlashEqual", <<"/", "=">>)}

\* The right sides of the statements evaluated: 5, 0, 2.5, a, 5 - 0, -a, a + 5
\* and a == 5.
RightSides ==
    {<<Integer(<<"5">>)>>, <<Integer(<<"0">>)>>, <<Float2_5>>, <<Identifier(<<"a">>)>>,
     <<Integer(<<"5">>), Minus, Integer(<<"0">>)>>,
     <<Minus, Identifier(<<"a">>)>>,
     <<Identifier(<<"a">>), Lexeme("Plus", <<"+">>), Integer(<<"5">>)>>,
     <<Identifier(<<"a">>), Lexeme("DoubleEqual", <<"=", "=">>), Integer(<<"5">>)>>}

\* The statements evaluated: `let a = e;`, `let mut a = e;`, `a = e;`,
\* `a += e;`, `a -= e;`, `a *= e;`, `a /= e;`, `e;` and `return;`.
StatementTexts ==
    {<<LetKeyword>> \o mut \o <<Identifier(<<"a">>), Lexeme("Equal", <<"=">>)>> \o e
       \o <<Semicolon>> : mut \in {<<>>, <<MutKeyword>>}, e \in RightSides}
    \cup {<<Identifier(<<"a">>), op>> \o e \o <<Semicolon>> :
            op \in AssignmentLexemes, e \in RightSides}
    \cup {e \o <<Semicolon>> : e \in RightSides}
    \cup {<<ReturnKeyword, Semicolon>>}

\* The operands of the expressions evaluated: 0, 2, 4, 2.5, a and b.
ExpressionOperands ==
    {Integer(<<"0">>), Integer(<<"2">>), Integer(<<"4">>), Float2_5,
     Identifier(<<"a">>), Identifier(<<"b">>)}

\* The operands of the chains evaluated: 5, 10 and 20.
ChainOperands == {Integer(<<"5">>), Integer(<<"1", "0">>), Integer(<<"2", "0">>)}

\* The expressions evaluated: an operand, `-x`, `!x`, `x op y` for every
\* binary operator and the chains `i op j op k` of + - * /.
ExpressionTexts ==
    {<<x>> : x \in ExpressionOperands}
    \cup {<<op, x>> : op \in {Minus, Exclamation}, x \in ExpressionOperands}
    \cup {<<x, op, y>> : x \in ExpressionOperands, op \in OperatorLexemes,
                         y \in ExpressionOperands}
    \cup {<<i, op1, j, op2, k>> : i \in ChainOperands, op1 \in ArithmeticLexemes,
                                  j \in ChainOperands, op2 \in ArithmeticLexemes,
                                  k \in ChainOperands}

\* One call of Evaluator::evaluate_statement, on a statement that starts
\* StatementWidth chars after the one before it: the closure of find_map in
\* evaluate_statements, which stops at the first Some.
EvaluateStatementCall ==
    /\ c_remaining > 0
    /\ c_result = <<>>
    /\ c_panic = <<>>
    /\ \E ls \in StatementTexts :
       \E node \in {ParseStatement(Layout(ls, Len(c_statements) * StatementWidth), 0).node} :
       \E e \in {EvaluateStatement(node, outer_context, inner_context)} :
             /\ c_statements' = Append(c_statements, node)
             /\ c_before' = Contexts(outer_context, inner_context)
             /\ outer_context' = e.outer_context
             /\ inner_context' = e.inner_context
             /\ c_result' = e.result
             /\ c_panic' = e.panic
    /\ c_remaining' = c_remaining - 1
    /\ UNCHANGED <<text, couchLexVars, riaraLexVars, parserVars, c_expression, riaraVars>>

\* One call of Evaluator::evaluate_expression.
EvaluateExpressionCall ==
    /\ c_expression = <<>>
    /\ c_statements = <<>>
    /\ \E ls \in ExpressionTexts :
       \E node \in {ParseExpression(Layout(ls, 0), 0).node} :
       \E value \in {EvaluateExpression(node, outer_context, inner_context)} :
             /\ c_expression' = <<node>>
             /\ c_result' = IF value.kind = "Panic" THEN <<>> ELSE <<value>>
             /\ c_panic' = IF value.kind = "Panic" THEN <<value.message>> ELSE <<>>
    /\ UNCHANGED <<text, couchLexVars, riaraLexVars, parserVars, outer_context,
                   inner_context, c_remaining, c_statements, c_before, riaraVars>>

\* The empty HashMap.
EmptyContext == [k \in {} |-> FunctionBinding]

\* Evaluator::evaluate_statements before its first statement.
EvaluatorInit ==
    /\ outer_context = EmptyContext
    /\ inner_context = EmptyContext
    /\ c_statements = <<>>
    /\ c_expression = <<>>
    /\ c_result = <<>>
    /\ c_panic = <<>>
    /\ c_before = Contexts(EmptyContext, EmptyContext)

-----------------------------------------------------------------------------
(* riara evaluator: scopes.  eval_expr is followed step by step through the *)
(* Block expressions it is in: a block is entered, evaluates statements and *)
(* its final expression, and returns to the block around it, either as one  *)
(* of its statements or as its final expression.  The statements are        *)
(* literals, identifiers and `let`s of these.  The pos of an Error, a copy  *)
(* of the expression's pos, is left out.                                    *)

\* A riara Value
RValue(kind, v) == [kind |-> kind, v |-> v]

Unit == RValue("Unit", <<>>)

\* Result<Value, Error>: Ok(value) and Err(self.error(pos, message))
Ok(value) == [ok |-> TRUE, value |-> value]

Err(message) == [ok |-> FALSE, error_type |-> "Runtime", message |-> message]

\* Evaluator::find_symbol: the last symbol of that id (an Option)
RECURSIVE FindSymbol(_, _)
FindSymbol(syms, id) ==
    IF syms = <<>> THEN <<>>
    ELSE IF syms[Len(syms)].id = id THEN <<syms[Len(syms)]>>
    ELSE FindSymbol(SubSeq(syms, 1, Len(syms) - 1), id)

\* The symbols with the last symbol of id `id` given the value `value`.
RECURSIVE SetLast(_, _, _)
SetLast(syms, id, value) ==
    IF syms[Len(syms)].id = id
    THEN SubSeq(syms, 1, Len(syms) - 1) \o <<[syms[Len(syms)] EXCEPT !.value = value]>>
    ELSE SetLast(SubSeq(syms, 1, Len(syms) - 1), id, value) \o <<syms[Len(syms)]>>

\* Evaluator::define_symbol pushing a new symbol whatever it has found.
DefineSymbolPushes(depth, syms, id, value, found) ==
    Append(syms, [stack_depth |-> depth, id |-> id, value |-> value])

\* Evaluator::define_symbol: the new symbols, given the last symbol of the id.
DefineSymbolFound(depth, syms, id, value, found) ==
    IF found # <<>> /\ found[1].stack_depth = depth
    THEN SetLast(syms, id, value)
    ELSE Append(syms, [stack_depth |-> depth, id |-> id, value |-> value])

\* Evaluator::define_symbol
DefineSymbol(depth, syms, id, value) ==
    DefineSymbolFound(depth, syms, id, value, FindSymbol(syms, id))

\* Evaluator::leave_scope retaining only the symbols below the new depth.
RetainBelow(syms, depth) == SelectSeq(syms, LAMBDA sym : sym.stack_depth < depth)

\* Evaluator::leave_scope: symbols.retain at the new depth `depth`.
Retain(syms, depth) == SelectSeq(syms, LAMBDA sym : sym.stack_depth <= depth)

\* What eval_expr leaves: its result and the symbols.
Evaluation(result, syms) == [result |-> result, symbols |-> syms]

\* Expr::Let once the value expression has its result.
LetAfter(id, result, depth, syms) ==
    IF ~result.ok THEN Evaluation(result, syms)
    ELSE Evaluation(Ok(Unit), DefineSymbol(depth, syms, id, result.value))

\* Expr::Id once find_symbol has returned.
IdAfter(id, found, syms) ==
    IF found = <<>> THEN Evaluation(Err("undefined symbol '" \o id \o "'"), syms)
    ELSE Evaluation(Ok(found[1].value), syms)

\* Evaluator::eval_expr on Unit, Int, Id and Let expressions.
RECURSIVE EvalExpr(_, _, _)
EvalExpr(expr, depth, syms) ==
    CASE expr.kind = "Unit" -> Evaluation(Ok(Unit), syms)
      [] expr.kind = "Int" -> Evaluation(Ok(RValue("Int", expr.v)), syms)
      [] expr.kind = "Id" -> IdAfter(expr.id, FindSymbol(syms, expr.id), syms)
      [] OTHER -> LetAfter(expr.id, EvalExpr(expr.value, depth, syms).result, depth, syms)

\* Evaluator::enter_scope
EnterScope(depth) == depth + 1

\* Evaluator::leave_scope: the new stack_depth and the symbols retained.
LeaveScope(depth, syms) ==
    [stack_depth |-> depth - 1, symbols |-> Retain(syms, depth - 1)]

\* The identifiers and integers of the expressions evaluated.
Ids == {"x", "y"}

Ints == {1, 2}

UnitExpr == [kind |-> "Unit"]

IntExpr(v) == [kind |-> "Int", v |-> v]

IdExpr(id) == [kind |-> "Id", id |-> id]

LetExpr(id, value) == [kind |-> "Let", id |-> id, value |-> value]

ValueExprs == {IntExpr(v) : v \in Ints} \cup {IdExpr(id) : id \in Ids}

SimpleExprs == {UnitExpr} \cup ValueExprs \cup {LetExpr(id, value) : id \in Ids, value \in ValueExprs}

\* What a lookup of the id gives: the value of the symbol found (an Option).
Binding(syms, id) ==
    IF FindSymbol(syms, id) = <<>> THEN <<>> ELSE <<FindSymbol(syms, id)[1].value>>

Bindings(syms) == [id \in Ids |-> Binding(syms, id)]

NoBindings == [id \in Ids |-> <<>>]

\* Where a Block expression stands in the expression around it: it is the
\* whole program, a statement of a block, the value of a `let` that is a
\* statement of a block, or the final expression of a block.
BlockRoles == {"top", "statement", "let", "tail"}

Frame(role, id, before) == [role |-> role, id |-> id, before |-> before]

\* The result a nested eval_expr has returned to the expression around it.
Returned(result, frame) == [result |-> result, role |-> frame.role, id |-> frame.id]

Front(seq) == SubSeq(seq, 1, Len(seq) - 1)

\* The scopes once the innermost of them defines the id.
Defined(scopes, id, value) == [scopes EXCEPT ![Len(scopes)][id] = <<value>>]

\* The value a successful `let` binds.
Bound(expr, depth, syms) == EvalExpr(expr.value, depth, syms).result.value

\* eval_expr on a program that is no block: main.rs evaluates one expression
\* with a new Evaluator.
EvalTopLevel ==
    /\ rt_result = <<>> /\ rt_frames = <<>> /\ rt_pending = <<>>
    /\ \E expr \in SimpleExprs :
       \E e \in {EvalExpr(expr, stack_depth, symbols)} :
          /\ symbols' = e.symbols
          /\ rt_result' = <<e.result>>
          /\ rt_scopes' = IF e.result.ok /\ expr.kind = "Let"
                          THEN Defined(rt_scopes, expr.id, Bound(expr, stack_depth, symbols))
                          ELSE rt_scopes
    /\ rt_exited' = <<>>
    /\ UNCHANGED <<stack_depth, rt_frames, rt_pending>>
    /\ UNCHANGED <<text, couchLexVars, riaraLexVars, parserVars, riaraParserVars, evaluatorVars, indexVars,
                   binaryVars>>

\* Expr::Block, its first line: enter_scope.
EnterBlock ==
    /\ rt_result = <<>> /\ rt_pending = <<>>
    /\ stack_depth < MaxDepth
    /\ \E role \in BlockRoles, id \in Ids :
          /\ (role = "top") = (rt_frames = <<>>)
          /\ rt_frames' = Append(rt_frames,
                 Frame(role, IF role = "let" THEN id ELSE "", Bindings(symbols)))
    /\ stack_depth' = EnterScope(stack_depth)
    /\ rt_scopes' = Append(rt_scopes, NoBindings)
    /\ rt_exited' = <<>>
    /\ UNCHANGED <<symbols, rt_pending, rt_result>>
    /\ UNCHANGED <<text, couchLexVars, riaraLexVars, parserVars, riaraParserVars, evaluatorVars, indexVars,
                   binaryVars>>

\* Expr::Block, one round of the loop over the statements, on a statement that
\* is no block: an Err returns from the block at the `?`, before leave_scope.
EvalStatement ==
    /\ rt_result = <<>> /\ rt_pending = <<>> /\ rt_frames # <<>>
    /\ \E expr \in SimpleExprs :
       \E e \in {EvalExpr(expr, stack_depth, symbols)} :
          /\ symbols' = e.symbols
          /\ IF e.result.ok
             THEN /\ rt_scopes' = IF expr.kind = "Let"
                                  THEN Defined(rt_scopes, expr.id,
                                               Bound(expr, stack_depth, symbols))
                                  ELSE rt_scopes
                  /\ UNCHANGED <<rt_frames, rt_pending>>
             ELSE /\ rt_pending' = <<Returned(e.result, rt_frames[Len(rt_frames)])>>
                  /\ rt_frames' = Front(rt_frames)
                  /\ rt_scopes' = Front(rt_scopes)
    /\ rt_exited' = <<>>
    /\ UNCHANGED <<stack_depth, rt_result>>
    /\ UNCHANGED <<text, couchLexVars, riaraLexVars, parserVars, riaraParserVars, evaluatorVars, indexVars,
                   binaryVars>>

\* Expr::Block from its final expression on, where that is absent or no
\* block: the result is kept, leave_scope runs, and the block returns.
EvalTail ==
    /\ rt_result = <<>> /\ rt_pending = <<>> /\ rt_frames # <<>>
    /\ \E expr \in SimpleExprs :
       \E e \in {EvalExpr(expr, stack_depth, symbols)} :
       \E left \in {LeaveScope(stack_depth, e.symbols)} :
          /\ stack_depth' = left.stack_depth
          /\ symbols' = left.symbols
          /\ rt_pending' = <<Returned(e.result, rt_frames[Len(rt_frames)])>>
          /\ rt_exited' = <<[result |-> e.result,
                             before |-> rt_frames[Len(rt_frames)].before]>>
    /\ rt_frames' = Front(rt_frames)
    /\ rt_scopes' = Front(rt_scopes)
    /\ UNCHANGED rt_result
    /\ UNCHANGED <<text, couchLexVars, riaraLexVars, parserVars, riaraParserVars, evaluatorVars, indexVars,
                   binaryVars>>

\* The return of eval_expr from a block to main.rs.
ReturnToTop ==
    /\ rt_pending # <<>> /\ rt_pending[1].role = "top"
    /\ rt_result' = <<rt_pending[1].result>>
    /\ rt_pending' = <<>>
    /\ rt_exited' = <<>>
    /\ UNCHANGED <<stack_depth, symbols, rt_frames, rt_scopes>>
    /\ UNCHANGED <<text, couchLexVars, riaraLexVars, parserVars, riaraParserVars, evaluatorVars, indexVars,
                   binaryVars>>

\* The return of eval_expr from a block to the loop over the statements of the
\* block around it, or to the `let` that is such a statement: an Err returns
\* from that block too, at the `?` and before its leave_scope; a value is
\* dropped, or defined by the `let`.
ReturnToStatement ==
    /\ rt_pending # <<>> /\ rt_pending[1].role \in {"statement", "let"}
    /\ IF rt_pending[1].result.ok
       THEN /\ rt_pending' = <<>>
            /\ IF rt_pending[1].role = "let"
               THEN /\ symbols' = DefineSymbol(stack_depth, symbols, rt_pending[1].id,
                                               rt_pending[1].result.value)
                    /\ rt_scopes' = Defined(rt_scopes, rt_pending[1].id,
                                            rt_pending[1].result.value)
               ELSE UNCHANGED <<symbols, rt_scopes>>
            /\ UNCHANGED rt_frames
       ELSE /\ rt_pending' = <<Returned(rt_pending[1].result, rt_frames[Len(rt_frames)])>>
            /\ rt_frames' = Front(rt_frames)
            /\ rt_scopes' = Front(rt_scopes)
            /\ UNCHANGED symbols
    /\ rt_exited' = <<>>
    /\ UNCHANGED <<stack_depth, rt_result>>
    /\ UNCHANGED <<text, couchLexVars, riaraLexVars, parserVars, riaraParserVars, evaluatorVars, indexVars,
                   binaryVars>>

\* The return of eval_expr from a block that is the final expression of the
\* block around it: the result is kept, leave_scope runs, and that block
\* returns it.
ReturnToTail ==
    /\ rt_pending # <<>> /\ rt_pending[1].role = "tail"
    /\ \E left \in {LeaveScope(stack_depth, symbols)} :
          /\ stack_depth' = left.stack_depth
          /\ symbols' = left.symbols
    /\ rt_pending' = <<Returned(rt_pending[1].result, rt_frames[Len(rt_frames)])>>
    /\ rt_exited' = <<[result |-> rt_pending[1].result,
                       before |-> rt_frames[Len(rt_frames)].before]>>
    /\ rt_frames' = Front(rt_frames)
    /\ rt_scopes' = Front(rt_scopes)
    /\ UNCHANGED rt_result
    /\ UNCHANGED <<text, couchLexVars, riaraLexVars, parserVars, riaraParserVars, evaluatorVars, indexVars,
                   binaryVars>>

\* Evaluator::new
ScopeInit ==
    /\ stack_depth = 0
    /\ symbols = <<>>
    /\ rt_frames = <<>>
    /\ rt_scopes = <<NoBindings>>
    /\ rt_pending = <<>>
    /\ rt_exited = <<>>
    /\ rt_result = <<>>

-----------------------------------------------------------------------------
(* riara evaluator: Expr::Index, from the match on the two values on.  A    *)
(* String holds its chars, one element each, as chars() yields them; a      *)
(* Tuple and an Array hold their values.                                    *)

\* Value::type_string
TypeString(value) ==
    CASE value.kind = "Unit" -> "()"
      [] value.kind = "Int" -> "int"
      [] value.kind = "Char" -> "char"
      [] value.kind = "String" -> "string"
      [] value.kind = "Bool" -> "bool"
      [] value.kind = "Tuple" -> "tuple"
      [] value.kind = "Array" -> "array"

\* `i as usize` taking the magnitude of a negative i.
AsUsizeMagnitude(i) == [beyond |-> FALSE, n |-> IF i < 0 THEN 0 - i ELSE i]

\* `i as usize` of an i64 on a target with 64-bit pointers: a negative i wraps
\* to 2^64 + i, which is 2^63 at least and so beyond isize::MAX, the most
\* elements a Vec or a String holds.
AsUsize(i) == [beyond |-> i < 0, n |-> IF i < 0 THEN 0 ELSE i]

\* Iterator::nth on chars() and slice::get: the element at the position (an
\* Option), counted from 0.
Get(elements, position) ==
    IF ~position.beyond /\ position.n < Len(elements)
    THEN <<elements[position.n + 1]>>
    ELSE <<>>

\* The arm of a String: the char found becomes a Value::Char.
IndexString(found) ==
    IF found # <<>> THEN Ok(RValue("Char", found[1])) ELSE Err("index overflow")

\* The arm of a Tuple or an Array: the value found is cloned.
IndexValues(found) ==
    IF found # <<>> THEN Ok(found[1]) ELSE Err("index overflow")

\* Expr::Index: the match on (subject, value)
Index(subject, value) ==
    CASE subject.kind = "String" /\ value.kind = "Int" ->
             IndexString(Get(subject.v, AsUsize(value.v)))
      [] subject.kind \in {"Tuple", "Array"} /\ value.kind = "Int" ->
             IndexValues(Get(subject.v, AsUsize(value.v)))
      [] OTHER ->
             Err("cannot index into " \o TypeString(subject) \o " with " \o TypeString(value))

\* The chars of the strings and the values of the tuples and arrays indexed.
IndexChars == {"a", "U+00C5"}

IndexElements == {Unit, RValue("Int", 1), RValue("Bool", TRUE)}

SeqsUpTo(set, n) == UNION {[1..k -> set] : k \in 0..n}

IndexSubjects ==
    {RValue("String", v) : v \in SeqsUpTo(IndexChars, MaxElements)}
    \cup {RValue(kind, v) : kind \in {"Tuple", "Array"}, v \in SeqsUpTo(IndexElements, MaxElements)}
    \cup {Unit, RValue("Int", 1), RValue("Char", "a"), RValue("Bool", TRUE)}

IndexWith ==
    {RValue("Int", i) : i \in (0 - 2)..(MaxElements + 1)}
    \cup {Unit, RValue("Char", "a"), RValue("Bool", FALSE), RValue("String", <<"a">>),
          RValue("Tuple", <<RValue("Int", 0)>>)}

\* eval_expr on an Expr::Index whose value and subject have evaluated to
\* ix_value and ix_subject.
EvalIndex ==
    /\ ix_result = <<>>
    /\ ix_subject # <<>>
    /\ ix_result' = <<Index(ix_subject[1], ix_value[1])>>
    /\ UNCHANGED <<ix_subject, ix_value, scopeVars, binaryVars>>
    /\ UNCHANGED <<text, couchLexVars, riaraLexVars, parserVars, riaraParserVars, evaluatorVars>>

IndexIdle ==
    /\ ix_subject = <<>>
    /\ ix_value = <<>>
    /\ ix_result = <<>>

-----------------------------------------------------------------------------
(* riara evaluator: Expr::Binary, from the match on the operator and the two *)
(* values on.  The integers evaluated are small: no i64 operation overflows. *)

\* What the match leaves: a Result, or the message of a panic.
Returns(result) == [result |-> <<result>>, panic |-> <<>>]

Panics(message) == [result |-> <<>>, panic |-> <<message>>]

\* left / right on i64
DivideInts(left, right) ==
    IF right = 0 THEN Panics("attempt to divide by zero")
    ELSE Returns(Ok(RValue("Int", TruncDiv(left, right))))

\* right.iter().find(|v| **v == left) is Some
Found(left, right) == \E k \in 1..Len(right) : right[k] = left

\* Expr::Binary: the match on (&binary_type, left, right)
Binary(binary_type, left, right) ==
    CASE binary_type = "Add" /\ left.kind = "Int" /\ right.kind = "Int" ->
             Returns(Ok(RValue("Int", left.v + right.v)))
      [] binary_type = "Subtract" /\ left.kind = "Int" /\ right.kind = "Int" ->
             Returns(Ok(RValue("Int", left.v - right.v)))
      [] binary_type = "Multiply" /\ left.kind = "Int" /\ right.kind = "Int" ->
             Returns(Ok(RValue("Int", left.v * right.v)))
      [] binary_type = "Divide" /\ left.kind = "Int" /\ right.kind = "Int" ->
             DivideInts(left.v, right.v)
      [] binary_type = "Add" /\ left.kind = "String" /\ right.kind = "String" ->
             Returns(Ok(RValue("String", left.v \o right.v)))
      [] binary_type = "Or" /\ left.kind = "Bool" /\ right.kind = "Bool" ->
             Returns(Ok(RValue("Bool", left.v \/ right.v)))
      [] binary_type = "And" /\ left.kind = "Bool" /\ right.kind = "Bool" ->
             Returns(Ok(RValue("Bool", left.v /\ right.v)))
      [] binary_type = "Includes" /\ right.kind = "Array" ->
             Returns(Ok(RValue("Bool", Found(left, right.v))))
      [] binary_type = "Excludes" /\ right.kind = "Array" ->
             Returns(Ok(RValue("Bool", ~Found(left, right.v))))
      [] OTHER ->
             Returns(Err("invalid binary " \o binary_type \o " operation"))

BinaryTypes == {"Add", "Subtract", "Multiply", "Divide", "Or", "And", "Includes", "Excludes"}

\* The values of the two sides.
BinarySides ==
    {RValue("Int", i) : i \in (0 - 1)..2}
    \cup {RValue("Bool", TRUE), RValue("String", <<"a">>), RValue("Array", <<RValue("Int", 1)>>)}

BinaryExprs ==
    [binary_type : BinaryTypes, left : BinarySides, right : BinarySides]

\* eval_expr on an Expr::Binary whose sides have evaluated to rb_expr[1].left
\* and rb_expr[1].right.
EvalBinary ==
    /\ rb_expr # <<>>
    /\ rb_result = <<>> /\ rb_panic = <<>>
    /\ \E r \in {Binary(rb_expr[1].binary_type, rb_expr[1].left, rb_expr[1].right)} :
          /\ rb_result' = r.result
          /\ rb_panic' = r.panic
    /\ UNCHANGED <<rb_expr, scopeVars, indexVars>>
    /\ UNCHANGED <<text, couchLexVars, riaraLexVars, parserVars, riaraParserVars, evaluatorVars>>

BinaryIdle ==
    /\ rb_expr = <<>>
    /\ rb_result = <<>>
    /\ rb_panic = <<>>

RuntimeIdle == ScopeInit /\ IndexIdle /\ BinaryIdle

-----------------------------------------------------------------------------
(* riara parser.  The lexer's tokens are kept with the value Token::value    *)
(* slices from the text; after the last of them the lexer yields Eof for     *)
(* ever.  The Pos of a token is its number in this sequence.  Recorded       *)
(* errors keep their message; the error_type is always Parser.               *)
(*                                                                           *)
(* A parsing function either returns, or panics (todo!), or runs a loop      *)
(* whose round leaves the parser holding the token the round began with: the *)
(* rounds read nothing but that token, so the same round follows for ever,   *)
(* each pushing a node and adding an error.  The field `stuck` of a result   *)
(* says which: "" for a return, "panic" or "hang"; a caller passes a stuck   *)
(* result on.                                                                *)

QToken(token_type, value) == [token_type |-> token_type, value |-> value]

\* self.current.token_type when the parser holds token number i
CurrentType(ts, i) == IF i <= Len(ts) THEN ts[i].token_type ELSE "Eof"

\* Node::new
RNode(value, pos) == [value |-> value, pos |-> pos]

\* What a parsing function leaves: the node it returns, the number of the
\* token the parser holds and the errors added so far.
QParsed(node, current, errors) ==
    [node |-> node, current |-> current, errors |-> errors, stuck |-> ""]

\* A parsing function that does not return, with what it had parsed.
QStuck(how, parsed) == [parsed EXCEPT !.stuck = how]

IsStuck(parsed) == parsed.stuck # ""

\* Parser::step: past the last token the lexer yields Eof again.
QStep(ts, i) == IF i <= Len(ts) THEN i + 1 ELSE i

\* The silent form of an Error node: no error is added.
QErrorSilent(pos, current, errors, message) ==
    QParsed(RNode([kind |-> "Error"], pos), current, errors)

\* Node::new(Expr::Error, pos) after add_error(.., message)
QError(pos, current, errors, message) ==
    QParsed(RNode([kind |-> "Error"], pos), current, Append(errors, message))

BinaryExpr(binary_type, left, right) ==
    [kind |-> "Binary", binary_type |-> binary_type, left |-> left, right |-> right]

UnaryExpr(unary_type, subject) ==
    [kind |-> "Unary", unary_type |-> unary_type, subject |-> subject]

BlockExpr(statements, expr) == [kind |-> "Block", statements |-> statements, expr |-> expr]

\* The char an escape sequence stands for ("NUL" is the char of code 0).
Unescaped(char) ==
    CASE char = "t" -> "\t"
      [] char = "r" -> "\r"
      [] char = "n" -> "\n"
      [] char = "0" -> "NUL"
      [] OTHER -> char

\* utils::unescape_string on the chars of the source
RECURSIVE UnescapeString(_, _)
UnescapeString(source, result) ==
    CASE source = <<>> -> [ok |-> TRUE, value |-> result]
      [] source # <<>> /\ Head(source) # "\\" ->
             UnescapeString(Tail(source), Append(result, Head(source)))
      [] source # <<>> /\ Head(source) = "\\" /\ Len(source) = 1 ->
             [ok |-> FALSE, message |-> "malformed escape sequence, expected char after '\\'"]
      [] OTHER ->
             UnescapeString(Tail(Tail(source)), Append(result, Unescaped(source[2])))

\* Parser::parse_string_expr once the literal between the quotes is unescaped
StringAfter(ts, i, errors, unescaped) ==
    IF unescaped.ok
    THEN QParsed(RNode([kind |-> "String", v |-> unescaped.value], i), QStep(ts, i), errors)
    ELSE QError(i, i, errors, "malformed string, " \o unescaped.message)

\* Parser::parse_string_expr
ParseStringExpr(ts, i, errors) ==
    StringAfter(ts, i, errors,
                UnescapeString(SubSeq(ts[i].value, 2, Len(ts[i].value) - 1), <<>>))

\* requires_semicolon
RequiresSemicolon(token_type) == token_type \notin {"LBrace", "If"}

UnaryTypeOf(token_type) ==
    CASE token_type = "Plus" -> "Plus"
      [] token_type = "Minus" -> "Negate"
      [] token_type = "Not" -> "Not"

\* The Unary node at token number i around the subject parsed after it.
UnaryAfter(ts, i, subject) ==
    IF IsStuck(subject) THEN subject
    ELSE QParsed(RNode(UnaryExpr(UnaryTypeOf(CurrentType(ts, i)), subject.node), i),
                 subject.current, subject.errors)

\* The Binary node at the operator token `pos`, with both sides parsed.
BinaryAfter(binary_type, pos, left, right) ==
    IF IsStuck(right) THEN right
    ELSE QParsed(RNode(BinaryExpr(binary_type, left.node, right.node), pos),
                 right.current, right.errors)

\* parse_comparison_expr at a `not` that no `in` follows: an Error node at the
\* `not`, the parser holding the token after it.
NotWithoutIn(ts, left) ==
    QError(left.current, QStep(ts, left.current), left.errors,
           "expected 'not', got " \o CurrentType(ts, QStep(ts, left.current)))

\* The end of parse_call_index_expr on `[`, with the index value parsed; pos is
\* the `[`.
IndexAfter(ts, pos, subject, value) ==
    IF IsStuck(value) THEN value
    ELSE IF CurrentType(ts, value.current) = "RBracket"
    THEN QParsed(RNode([kind |-> "Index", subject |-> subject.node, value |-> value.node],
                       pos),
                 QStep(ts, value.current), value.errors)
    ELSE QError(pos, value.current, value.errors,
                "expected ']', got " \o CurrentType(ts, value.current))

\* The end of parse_unit_or_group_or_tuple_expr, the loop over the commas left.
TupleEnd(ts, pos, exprs, i, errors) ==
    IF CurrentType(ts, i) # "RParen"
    THEN QParsed(RNode([kind |-> "Tuple", exprs |-> exprs], pos), i,
                 Append(errors, "expected ')', got " \o CurrentType(ts, i)))
    ELSE QParsed(RNode([kind |-> "Tuple", exprs |-> exprs], pos), QStep(ts, i), errors)

\* Expr::If with its parts parsed
IfAfterFalsy(pos, condition, truthy, falsy) ==
    IF IsStuck(falsy) THEN falsy
    ELSE QParsed(RNode([kind |-> "If", condition |-> condition, truthy |-> truthy,
                        falsy |-> <<falsy.node>>], pos),
                 falsy.current, falsy.errors)

\* Expr::Let with its value parsed
QLetAfter(ts, pos, value) ==
    IF IsStuck(value) THEN value
    ELSE QParsed(RNode(LetExpr(Str(ts[pos + 1].value), value.node), pos),
                 value.current, value.errors)

\* What a parsing function returns is bound to a name, as `let left = ..` and
\* `let expr = ..` bind it in the source, before the code that follows the call
\* goes on: CHOOSE r \in {After(x) : x \in {Called}} : TRUE is After(Called)
\* with Called evaluated first.  parse_or_expr down to parse_multiply_divide_expr
\* apply their loop to what the level below returned, so each of them is the
\* loops of the levels from parse_unary_expr up to its own, one after the other.
RECURSIVE ParseExprOperand(_, _, _), ParseCallIndexExpr(_, _, _), ParseUnaryExpr(_, _, _),
          MultiplyDivideExprLoop(_, _), AddSubtractExprLoop(_, _), ComparisonExprLoop(_, _),
          AndExprLoop(_, _), OrExprLoop(_, _), ParseExpr(_, _, _),
          ParseUnitOrGroupOrTupleExpr(_, _, _), GroupAfter(_, _, _),
          TupleLoop(_, _, _, _, _), TupleAfter(_, _, _, _),
          ParseArrayExpr(_, _, _), ArrayFirst(_, _, _), ArrayLoop(_, _, _, _, _),
          ArrayAfter(_, _, _, _, _),
          ParseBlockExpr(_, _, _), BlockLoop(_, _, _, _, _), BlockAfter(_, _, _, _, _),
          BlockAfterSemicolons(_, _, _, _, _),
          ParseIfExpr(_, _, _), IfAfterCondition(_, _, _), IfAfterTruthy(_, _, _, _),
          RiaraParseStatement(_, _, _), ParseLetStatement(_, _, _)

\* Parser::parse_expr_operand
ParseExprOperand(ts, i, errors) ==
    CASE CurrentType(ts, i) = "Id" ->
             QParsed(RNode(IdExpr(Str(ts[i].value)), i), QStep(ts, i), errors)
      [] CurrentType(ts, i) = "Int" ->
             QParsed(RNode(IntExpr(ParseI64(ts[i].value)), i), QStep(ts, i), errors)
      [] CurrentType(ts, i) = "String" -> ParseStringExpr(ts, i, errors)
      [] CurrentType(ts, i) = "False" ->
             QParsed(RNode([kind |-> "Bool", v |-> FALSE], i), QStep(ts, i), errors)
      [] CurrentType(ts, i) = "True" ->
             QParsed(RNode([kind |-> "Bool", v |-> TRUE], i), QStep(ts, i), errors)
      [] CurrentType(ts, i) = "LParen" -> ParseUnitOrGroupOrTupleExpr(ts, i, errors)
      [] CurrentType(ts, i) = "LBracket" -> ParseArrayExpr(ts, i, errors)
      [] CurrentType(ts, i) = "LBrace" -> ParseBlockExpr(ts, i, errors)
      [] CurrentType(ts, i) = "If" -> ParseIfExpr(ts, i, errors)
      [] OTHER ->
             QError(i, i, errors, "expected operand, got " \o CurrentType(ts, i))

\* Parser::parse_call_index_expr from the match on, with the operand parsed
CallIndexAfter(ts, subject) ==
    CASE IsStuck(subject) -> subject
      [] ~IsStuck(subject) /\ CurrentType(ts, subject.current) = "LParen" ->
             QStuck("panic", subject)
      [] ~IsStuck(subject) /\ CurrentType(ts, subject.current) = "LBracket" ->
             CHOOSE r \in {IndexAfter(ts, subject.current, subject, value) :
                            value \in {ParseExpr(ts, QStep(ts, subject.current),
                                                  subject.errors)}} : TRUE
      [] OTHER -> subject

\* Parser::parse_call_index_expr
ParseCallIndexExpr(ts, i, errors) ==
    CHOOSE r \in {CallIndexAfter(ts, subject) :
                   subject \in {ParseExprOperand(ts, i, errors)}} : TRUE

\* Parser::parse_unary_expr
ParseUnaryExpr(ts, i, errors) ==
    IF CurrentType(ts, i) \in {"Plus", "Minus", "Not"}
    THEN CHOOSE r \in {UnaryAfter(ts, i, subject) :
                        subject \in {ParseUnaryExpr(ts, QStep(ts, i), errors)}} : TRUE
    ELSE ParseCallIndexExpr(ts, i, errors)

\* The loop of parse_multiply_divide_expr, with `left` parsed.
MultiplyDivideExprLoop(ts, left) ==
    IF ~IsStuck(left) /\ CurrentType(ts, left.current) \in {"Asterisk", "Slash"}
    THEN CHOOSE r \in {MultiplyDivideExprLoop(ts,
                            BinaryAfter(IF CurrentType(ts, left.current) = "Asterisk"
                                        THEN "Multiply" ELSE "Divide",
                                        left.current, left, right)) :
                        right \in {ParseUnaryExpr(ts, QStep(ts, left.current),
                                                  left.errors)}} : TRUE
    ELSE left

\* Parser::parse_multiply_divide_expr
ParseMultiplyDivideExpr(ts, i, errors) ==
    CHOOSE r \in {MultiplyDivideExprLoop(ts, left) :
                   left \in {ParseUnaryExpr(ts, i, errors)}} : TRUE

\* The loop of parse_add_subtract_expr, with `left` parsed: the right side is
\* what parse_unary_expr returns.
AddSubtractExprLoop(ts, left) ==
    IF ~IsStuck(left) /\ CurrentType(ts, left.current) \in {"Plus", "Minus"}
    THEN CHOOSE r \in {AddSubtractExprLoop(ts,
                            BinaryAfter(IF CurrentType(ts, left.current) = "Plus"
                                        THEN "Add" ELSE "Subtract",
                                        left.current, left, right)) :
                        right \in {ParseUnaryExpr(ts, QStep(ts, left.current),
                                                  left.errors)}} : TRUE
    ELSE left

\* Parser::parse_add_subtract_expr
ParseAddSubtractExpr(ts, i, errors) ==
    CHOOSE r \in {AddSubtractExprLoop(ts, factor) :
                     factor \in
                       {MultiplyDivideExprLoop(ts, unary) :
                       unary \in {ParseUnaryExpr(ts, i, errors)}}} : TRUE

\* The loop of parse_comparison_expr, with `left` parsed.
ComparisonExprLoop(ts, left) ==
    CASE IsStuck(left) -> left
      [] ~IsStuck(left) /\ CurrentType(ts, left.current) = "In" ->
             CHOOSE r \in {ComparisonExprLoop(ts,
                                BinaryAfter("Includes", left.current, left, right)) :
                            right \in {ParseAddSubtractExpr(ts, QStep(ts, left.current),
                                                            left.errors)}} : TRUE
      [] ~IsStuck(left) /\ CurrentType(ts, left.current) = "Not"
           /\ CurrentType(ts, QStep(ts, left.current)) = "In" ->
             CHOOSE r \in {ComparisonExprLoop(ts,
                                BinaryAfter("Excludes", left.current, left, right)) :
                            right \in {ParseAddSubtractExpr(ts,
                                           QStep(ts, QStep(ts, left.current)),
                                           left.errors)}} : TRUE
      [] ~IsStuck(left) /\ CurrentType(ts, left.current) = "Not"
           /\ CurrentType(ts, QStep(ts, left.current)) # "In" ->
             NotWithoutIn(ts, left)
      [] OTHER -> left

\* Parser::parse_comparison_expr
ParseComparisonExpr(ts, i, errors) ==
    CHOOSE r \in {ComparisonExprLoop(ts, term) :
                   term \in
                     {AddSubtractExprLoop(ts, factor) :
                     factor \in
                       {MultiplyDivideExprLoop(ts, unary) :
                       unary \in {ParseUnaryExpr(ts, i, errors)}}}} : TRUE

\* The loop of parse_and_expr, with `left` parsed.
AndExprLoop(ts, left) ==
    IF ~IsStuck(left) /\ CurrentType(ts, left.current) = "And"
    THEN CHOOSE r \in {AndExprLoop(ts, BinaryAfter("And", left.current, left, right)) :
                        right \in {ParseComparisonExpr(ts, QStep(ts, left.current),
                                                       left.errors)}} : TRUE
    ELSE left

\* Parser::parse_and_expr
ParseAndExpr(ts, i, errors) ==
    CHOOSE r \in {AndExprLoop(ts, comparison) :
                 comparison \in
                   {ComparisonExprLoop(ts, term) :
                   term \in
                     {AddSubtractExprLoop(ts, factor) :
                     factor \in
                       {MultiplyDivideExprLoop(ts, unary) :
                       unary \in {ParseUnaryExpr(ts, i, errors)}}}}} : TRUE

\* The loop of parse_or_expr, with `left` parsed.
OrExprLoop(ts, left) ==
    IF ~IsStuck(left) /\ CurrentType(ts, left.current) = "Or"
    THEN CHOOSE r \in {OrExprLoop(ts, BinaryAfter("Or", left.current, left, right)) :
                        right \in {ParseAndExpr(ts, QStep(ts, left.current),
                                                left.errors)}} : TRUE
    ELSE left

\* Parser::parse_or_expr
ParseOrExpr(ts, i, errors) ==
    CHOOSE r \in {OrExprLoop(ts, conjunction) :
               conjunction \in
                 {AndExprLoop(ts, comparison) :
                 comparison \in
                   {ComparisonExprLoop(ts, term) :
                   term \in
                     {AddSubtractExprLoop(ts, factor) :
                     factor \in
                       {MultiplyDivideExprLoop(ts, unary) :
                       unary \in {ParseUnaryExpr(ts, i, errors)}}}}}} : TRUE

\* Parser::parse_expr
ParseExpr(ts, i, errors) == ParseOrExpr(ts, i, errors)

\* Parser::parse_unit_or_group_or_tuple_expr, the `(` being token number i
ParseUnitOrGroupOrTupleExpr(ts, i, errors) ==
    IF CurrentType(ts, QStep(ts, i)) = "RParen"
    THEN QParsed(RNode(UnitExpr, i), QStep(ts, QStep(ts, i)), errors)
    ELSE CHOOSE r \in {GroupAfter(ts, i, first) :
                        first \in {ParseExpr(ts, QStep(ts, i), errors)}} : TRUE

\* parse_unit_or_group_or_tuple_expr with the first expression parsed
GroupAfter(ts, pos, first) ==
    CASE IsStuck(first) -> first
      [] ~IsStuck(first) /\ CurrentType(ts, first.current) = "RParen" ->
             QParsed(first.node, QStep(ts, first.current), first.errors)
      [] ~IsStuck(first) /\ CurrentType(ts, first.current) = "Comma" ->
             TupleLoop(ts, pos, <<first.node>>, first.current, first.errors)
      [] OTHER ->
             QError(pos, first.current, first.errors,
                    "expected ',' or ')', got " \o CurrentType(ts, first.current))

\* The `while` loop of parse_unit_or_group_or_tuple_expr
TupleLoop(ts, pos, exprs, i, errors) ==
    IF CurrentType(ts, i) = "Comma"
    THEN IF CurrentType(ts, QStep(ts, i)) = "RParen"
         THEN TupleEnd(ts, pos, exprs, QStep(ts, i), errors)
         ELSE CHOOSE r \in {TupleAfter(ts, pos, exprs, expr) :
                             expr \in {ParseExpr(ts, QStep(ts, i), errors)}} : TRUE
    ELSE TupleEnd(ts, pos, exprs, i, errors)

TupleAfter(ts, pos, exprs, expr) ==
    IF IsStuck(expr) THEN expr
    ELSE TupleLoop(ts, pos, Append(exprs, expr.node), expr.current, expr.errors)

\* Parser::parse_array_expr, the `[` being token number i
ParseArrayExpr(ts, i, errors) ==
    IF CurrentType(ts, QStep(ts, i)) = "RBracket"
    THEN QParsed(RNode([kind |-> "Array", exprs |-> <<>>], i), QStep(ts, QStep(ts, i)),
                 errors)
    ELSE CHOOSE r \in {ArrayFirst(ts, i, first) :
                        first \in {ParseExpr(ts, QStep(ts, i), errors)}} : TRUE

\* parse_array_expr with the first expression parsed
ArrayFirst(ts, pos, first) ==
    IF IsStuck(first) THEN first
    ELSE ArrayLoop(ts, pos, <<first.node>>, first.current, first.errors)

\* The loop of parse_array_expr
ArrayLoop(ts, pos, exprs, i, errors) ==
    CASE CurrentType(ts, i) = "RBracket" ->
             QParsed(RNode([kind |-> "Array", exprs |-> exprs], pos), QStep(ts, i), errors)
      [] CurrentType(ts, i) = "Comma" /\ CurrentType(ts, QStep(ts, i)) = "RBracket" ->
             QParsed(RNode([kind |-> "Array", exprs |-> exprs], pos),
                     QStep(ts, QStep(ts, i)), errors)
      [] CurrentType(ts, i) = "Comma" /\ CurrentType(ts, QStep(ts, i)) # "RBracket" ->
             ArrayLoop(ts, pos, exprs, QStep(ts, i), errors)
      [] OTHER -> CHOOSE r \in {ArrayAfter(ts, pos, exprs, i, expr) :
                                 expr \in {ParseExpr(ts, i, errors)}} : TRUE

\* The `_` arm of the loop of parse_array_expr with the expression parsed: a
\* round that began at token `from` and holds it still is repeated for ever.
ArrayAfter(ts, pos, exprs, from, expr) ==
    CASE IsStuck(expr) -> expr
      [] ~IsStuck(expr) /\ expr.current = from -> QStuck("hang", expr)
      [] OTHER -> ArrayLoop(ts, pos, Append(exprs, expr.node), expr.current, expr.errors)

\* Parser::parse_block_expr, which steps over token number i whatever it is
ParseBlockExpr(ts, i, errors) ==
    IF CurrentType(ts, QStep(ts, i)) = "RBrace"
    THEN QParsed(RNode(BlockExpr(<<>>, <<>>), i), QStep(ts, QStep(ts, i)), errors)
    ELSE BlockLoop(ts, i, <<>>, QStep(ts, i), errors)

\* One round of the loop of parse_block_expr
BlockLoop(ts, pos, statements, i, errors) ==
    CHOOSE r \in {BlockAfter(ts, pos, statements, i, statement) :
                   statement \in {RiaraParseStatement(ts, i, errors)}} : TRUE

\* The round from the match on, with the statement parsed: in the last arm a
\* round that began at token `from` and holds it still is repeated for ever.
BlockAfter(ts, pos, statements, from, statement) ==
    CASE IsStuck(statement) -> statement
      [] ~IsStuck(statement) /\ CurrentType(ts, statement.current) = "RBrace" ->
             QParsed(RNode(BlockExpr(statements, <<statement.node>>), pos),
                     QStep(ts, statement.current), statement.errors)
      [] ~IsStuck(statement) /\ CurrentType(ts, statement.current) = "Semicolon" ->
             BlockAfterSemicolons(ts, pos, Append(statements, statement.node),
                                  QStep(ts, statement.current), statement.errors)
      [] ~IsStuck(statement) /\ CurrentType(ts, statement.current) = "Eof" ->
             QError(pos, statement.current, statement.errors,
                    "expected '}' or ';', got Eof")
      [] OTHER ->
             IF statement.current = from THEN QStuck("hang", statement)
             ELSE BlockLoop(ts, pos, Append(statements, statement.node), statement.current,
                      IF RequiresSemicolon(CurrentType(ts, from))
                      THEN Append(statement.errors,
                                  "expected '}' or ';', got "
                                    \o CurrentType(ts, statement.current))
                      ELSE statement.errors)

\* The Semicolon arm stepping over one `;` only.
BlockAfterOneSemicolon(ts, pos, statements, i, errors) ==
    CASE CurrentType(ts, i) = "RBrace" ->
             QParsed(RNode(BlockExpr(statements, <<>>), pos), QStep(ts, i), errors)
      [] CurrentType(ts, i) = "Eof" ->
             QError(pos, i, errors, "expected '}', got Eof")
      [] OTHER -> BlockLoop(ts, pos, statements, i, errors)

\* The Semicolon arm once the first `;` is stepped over
BlockAfterSemicolons(ts, pos, statements, i, errors) ==
    CASE CurrentType(ts, i) = "Semicolon" ->
             BlockAfterSemicolons(ts, pos, statements, QStep(ts, i), errors)
      [] CurrentType(ts, i) = "RBrace" ->
             QParsed(RNode(BlockExpr(statements, <<>>), pos), QStep(ts, i), errors)
      [] CurrentType(ts, i) = "Eof" ->
             QError(pos, i, errors, "expected '}', got Eof")
      [] OTHER -> BlockLoop(ts, pos, statements, i, errors)

\* Parser::parse_if_expr, the `if` being token number i
ParseIfExpr(ts, i, errors) ==
    CHOOSE r \in {IfAfterCondition(ts, i, condition) :
                   condition \in {ParseExpr(ts, QStep(ts, i), errors)}} : TRUE

IfAfterCondition(ts, pos, condition) ==
    IF IsStuck(condition) THEN condition
    ELSE CHOOSE r \in {IfAfterTruthy(ts, pos, condition.node, truthy) :
                        truthy \in {ParseBlockExpr(ts, condition.current,
                                                   condition.errors)}} : TRUE

IfAfterTruthy(ts, pos, condition, truthy) ==
    CASE IsStuck(truthy) -> truthy
      [] ~IsStuck(truthy) /\ CurrentType(ts, truthy.current) = "Else" ->
             CHOOSE r \in {IfAfterFalsy(pos, condition, truthy.node, falsy) :
                            falsy \in {ParseBlockExpr(ts, QStep(ts, truthy.current),
                                                      truthy.errors)}} : TRUE
      [] OTHER ->
             QParsed(RNode([kind |-> "If", condition |-> condition, truthy |-> truthy.node,
                            falsy |-> <<>>], pos),
                     truthy.current, truthy.errors)

\* Parser::parse_let_statement, the `let` being token number i
ParseLetStatement(ts, i, errors) ==
    CASE CurrentType(ts, QStep(ts, i)) # "Id" ->
             QError(i, QStep(ts, i), errors,
                    "expected Id, got " \o CurrentType(ts, QStep(ts, i)))
      [] CurrentType(ts, QStep(ts, i)) = "Id"
           /\ CurrentType(ts, QStep(ts, QStep(ts, i))) # "Equal" ->
             QError(i, QStep(ts, QStep(ts, i)), errors,
                    "expected '=', got " \o CurrentType(ts, QStep(ts, QStep(ts, i))))
      [] OTHER ->
             CHOOSE r \in {QLetAfter(ts, i, value) :
                            value \in {ParseExpr(ts, QStep(ts, QStep(ts, QStep(ts, i))),
                                                  errors)}} : TRUE

\* Parser::parse_statement
RiaraParseStatement(ts, i, errors) ==
    CASE CurrentType(ts, i) = "LBrace" -> ParseBlockExpr(ts, i, errors)
      [] CurrentType(ts, i) = "If" -> ParseIfExpr(ts, i, errors)
      [] CurrentType(ts, i) = "Let" -> ParseLetStatement(ts, i, errors)
      [] OTHER -> ParseExpr(ts, i, errors)

\* The end of Parser::parse, with `expr` parsed.
ExpectEof(ts, expr) ==
    IF IsStuck(expr) \/ CurrentType(ts, expr.current) = "Eof" THEN expr
    ELSE QParsed(expr.node, expr.current,
                 Append(expr.errors, "expected Eof, got " \o CurrentType(ts, expr.current)))

\* Parser::parse, from the token the parser holds
Parse(ts, i, errors) ==
    CHOOSE r \in {ExpectEof(ts, expr) : expr \in {ParseExpr(ts, i, errors)}} : TRUE

\* One call of Parser::parse on a parser as Parser::new made it: it returns,
\* or it never does.
ParseCall ==
    /\ q_expr = <<>> /\ q_stuck = ""
    /\ \E r \in {Parse(q_tokens, q_current, q_errors)} :
           /\ q_expr' = IF IsStuck(r) THEN <<>> ELSE <<r.node>>
           /\ q_current' = r.current
           /\ q_errors' = r.errors
           /\ q_stuck' = r.stuck
    /\ UNCHANGED <<q_tokens, mainVars>>
    /\ UNCHANGED <<text, couchLexVars, riaraLexVars, parserVars, evaluatorVars, runtimeVars>>

\* Parser::new: the parser holds the lexer's first token.
RiaraParserInit ==
    /\ q_current = 1
    /\ q_errors = <<>>
    /\ q_expr = <<>>
    /\ q_stuck = ""

-----------------------------------------------------------------------------
(* riara main: the text is lexed as the parser asks for tokens, parsed, and  *)
(* evaluated if neither collector holds an error.  The texts are of one-byte *)
(* chars, on which next_token does not panic.                                *)

\* The results of the call of next_token that gave `lexed` and of the calls
\* after it, up to the one that returns Eof.
RECURSIVE LexAll(_, _)
LexAll(t, lexed) ==
    IF lexed.panicked \/ lexed.token.token_type = "Eof" THEN <<lexed>>
    ELSE <<lexed>> \o LexAll(t, NextToken(t, lexed.lexer))

\* Token::value of each token before Eof
ValuesOf(t, lexed) ==
    [k \in 1..(Len(lexed) - 1) |->
        QToken(lexed[k].token.token_type,
               SliceChars(t, lexed[k].token.pos.index, lexed[k].token.length))]

\* The errors the first `asked` calls of next_token added to the lexer's
\* collector.
RECURSIVE LexerErrors(_, _)
LexerErrors(lexed, asked) ==
    IF asked = 0 THEN <<>> ELSE LexerErrors(lexed, asked - 1) \o lexed[asked].errors

\* How many tokens the parser has asked the lexer for when it holds token
\* number `current`.
Asked(lexed, current) == IF current < Len(lexed) THEN current ELSE Len(lexed)

\* parser_collector.merged_with(lexer_collector).errors(), the parser's
\* errors as records
Merged(parser_errors, lexer_errors) ==
    [k \in 1..Len(parser_errors) |-> [error_type |-> "Parser", message |-> parser_errors[k]]]
        \o lexer_errors

\* main, from the lexer it makes to the call of eval_expr.
MainAfter(lexed, parsed, asked) ==
    /\ q_tokens' = ValuesOf(text, lexed)
    /\ q_current' = parsed.current
    /\ q_errors' = parsed.errors
    /\ q_stuck' = parsed.stuck
    /\ q_expr' = IF IsStuck(parsed) THEN <<>> ELSE <<parsed.node>>
    /\ r_tokens' = [k \in 1..asked |-> lexed[k].token]
    /\ r_spans' = [k \in 1..asked |->
                     <<TokenStart(text, IF k = 1 THEN NewLexer(text) ELSE lexed[k - 1].lexer),
                       lexed[k].lexer.index>>]
    /\ r_errors' = LexerErrors(lexed, asked)
    /\ r_index' = lexed[asked].lexer.index
    /\ r_line' = lexed[asked].lexer.line
    /\ r_col' = lexed[asked].lexer.col
    /\ r_current' = lexed[asked].lexer.current
    /\ UNCHANGED r_panicked
    /\ m_errors' = IF IsStuck(parsed) THEN <<>>
                   ELSE <<Merged(parsed.errors, LexerErrors(lexed, asked))>>
    /\ m_evaluated' = IF ~IsStuck(parsed) /\ parsed.errors = <<>>
                            /\ LexerErrors(lexed, asked) = <<>>
                       THEN <<parsed.node>> ELSE <<>>

\* main
Main ==
    /\ m_errors = <<>> /\ q_stuck = "" /\ r_tokens = <<>>
    /\ \E lexed \in {LexAll(text, NextToken(text, NewLexer(text)))} :
       \E parsed \in {Parse(ValuesOf(text, lexed), 1, <<>>)} :
          MainAfter(lexed, parsed, Asked(lexed, parsed.current))
    /\ UNCHANGED <<text, couchLexVars, parserVars, evaluatorVars, runtimeVars>>

MainIdle ==
    /\ m_errors = <<>>
    /\ m_evaluated = <<>>

RiaraParserIdle == q_tokens = <<>> /\ RiaraParserInit /\ MainIdle

-----------------------------------------------------------------------------
(* Specifications *)

\* A component that a specification does not run stays as constructed, with
\* no input.
ParserIdle == p_tokens = <<>> /\ ParserInit

EvaluatorIdle == EvaluatorInit /\ c_remaining = 0

LexersIdle == text = <<>> /\ CouchLexInit /\ RiaraLexInit


Texts(alphabet, n) == UNION {[1..k -> alphabet] : k \in 0..n}

\* The couch-lang lexer on every text over its alphabet.
InitCouchLexer ==
    /\ RiaraParserIdle
    /\ text \in Texts(CouchAlphabet, MaxTextLen)
    /\ CouchLexInit
    /\ RiaraLexInit
    /\ ParserIdle
    /\ EvaluatorIdle
    /\ RuntimeIdle

SpecCouchLexer == InitCouchLexer /\ [][LexerIteratorNext]_vars

\* The couch-lang lexer on the longer texts of a digit, a blank, a line feed,
\* the chars of comments and a char of two bytes.
InitCouchComments ==
    /\ RiaraParserIdle
    /\ text \in Texts(CommentAlphabet, MaxCommentedLen)
    /\ CouchLexInit
    /\ RiaraLexInit
    /\ ParserIdle
    /\ EvaluatorIdle
    /\ RuntimeIdle

SpecCouchComments == InitCouchComments /\ [][LexerIteratorNext]_vars

\* The couch-lang lexer on the longer texts of a digit, a line feed, `/`, `*`
\* and `=`.
InitCouchSlashes ==
    /\ text \in Texts(SlashAlphabet, MaxCommentedLen)
    /\ CouchLexInit
    /\ RiaraLexInit
    /\ ParserIdle
    /\ EvaluatorIdle
    /\ RuntimeIdle
    /\ RiaraParserIdle

SpecCouchSlashes == InitCouchSlashes /\ [][LexerIteratorNext]_vars

\* The riara lexer on every text over its alphabet.
InitRiaraLexer ==
    /\ RiaraParserIdle
    /\ text \in Texts(RiaraAlphabet, MaxTextLen)
    /\ CouchLexInit
    /\ RiaraLexInit
    /\ ParserIdle
    /\ EvaluatorIdle
    /\ RuntimeIdle

SpecRiaraLexer == InitRiaraLexer /\ [][RiaraNextToken]_vars

\* Both lexers on the same text, over the chars both alphabets share.
InitLexers ==
    /\ RiaraParserIdle
    /\ text \in Texts(SharedAlphabet, MaxTextLen)
    /\ CouchLexInit
    /\ RiaraLexInit
    /\ ParserIdle
    /\ EvaluatorIdle
    /\ RuntimeIdle

NextLexers == LexerIteratorNext \/ RiaraNextToken

SpecLexers == InitLexers /\ [][NextLexers]_vars


\* The parser on every sequence of up to MaxTokens operand and operator tokens.
InitCouchParser ==
    /\ RiaraParserIdle
    /\ LexersIdle
    /\ EvaluatorIdle
    /\ RuntimeIdle
    /\ p_tokens \in {Layout(ls, 0) :
                       ls \in UNION {[1..k -> OperandLexemes \cup OperatorLexemes] :
                                       k \in 0..MaxTokens}}
    /\ ParserInit

SpecCouchParser == InitCouchParser /\ [][ParseExpressionCall]_vars

\* The lexemes of the statements parsed: let, return, fn, a, 5, =, ; and +.
StatementLexemes ==
    {Lexeme("LetKeyword", <<"l", "e", "t">>),
     Lexeme("ReturnKeyword", <<"r", "e", "t", "u", "r", "n">>),
     Lexeme("FnKeyword", <<"f", "n">>),
     Lexeme("Identifier", <<"a">>), Lexeme("Integer", <<"5">>),
     Lexeme("Equal", <<"=">>), Lexeme("Semicolon", <<";">>), Lexeme("Plus", <<"+">>)}

\* parse_statements on every sequence of up to MaxTokens of these tokens.
InitCouchStatements ==
    /\ RiaraParserIdle
    /\ LexersIdle
    /\ EvaluatorIdle
    /\ RuntimeIdle
    /\ p_tokens \in {Layout(ls, 0) :
                       ls \in UNION {[1..k -> StatementLexemes] : k \in 0..MaxTokens}}
    /\ ParserInit

SpecCouchStatements == InitCouchStatements /\ [][ParseStatementCall]_vars

\* The values a context holds: 5, 2.5, NaN, true and the error of `let a = b;`.
ContextValues ==
    {IntegerValue(5), FloatValue(Fin(5, 2)), FloatValue(NaN), BoolValue(TRUE),
     ErrorValue("identifier b is not yet given value", 1, 9)}

IdentifierTypes ==
    {ValueBinding(mutable, value) : mutable \in BOOLEAN, value \in ContextValues}
    \cup {FunctionBinding}

\* Every HashMap that binds some of `names`.
ContextsOver(names) == UNION {[bound -> IdentifierTypes] : bound \in SUBSET names}

\* evaluate_statements on every list of up to MaxStatements statements: the
\* contexts start empty.
InitCouchProgram ==
    /\ RiaraParserIdle
    /\ LexersIdle
    /\ ParserIdle
    /\ EvaluatorInit
    /\ c_remaining \in 0..MaxStatements
    /\ RuntimeIdle

SpecCouchProgram == InitCouchProgram /\ [][EvaluateStatementCall]_vars

\* A call with two contexts of the caller's that bind or do not bind `a`.
InitCouchContexts ==
    /\ RiaraParserIdle
    /\ LexersIdle
    /\ ParserIdle
    /\ outer_context \in ContextsOver({"a"})
    /\ inner_context \in ContextsOver({"a"})
    /\ c_statements = <<>>
    /\ c_expression = <<>>
    /\ c_result = <<>>
    /\ c_panic = <<>>
    /\ c_before = Contexts(outer_context, inner_context)
    /\ RuntimeIdle

\* evaluate_statement on every statement, in every such pair of contexts.
InitCouchStatement == InitCouchContexts /\ c_remaining = 1

SpecCouchStatement == InitCouchStatement /\ [][EvaluateStatementCall]_vars

\* evaluate_expression on every expression, in every such pair of contexts.
InitCouchExpression == InitCouchContexts /\ c_remaining = 0

SpecCouchExpression == InitCouchExpression /\ [][EvaluateExpressionCall]_vars

\* main.rs: a new Evaluator evaluates one expression, a block nested up to
\* MaxDepth deep or an expression that is no block.
InitRiaraScope ==
    /\ RiaraParserIdle
    /\ LexersIdle
    /\ ParserIdle
    /\ EvaluatorIdle
    /\ ScopeInit
    /\ IndexIdle
    /\ BinaryIdle

NextRiaraScope ==
    \/ EvalTopLevel
    \/ EnterBlock
    \/ EvalStatement
    \/ EvalTail
    \/ ReturnToTop
    \/ ReturnToStatement
    \/ ReturnToTail

SpecRiaraScope == InitRiaraScope /\ [][NextRiaraScope]_vars

\* An Expr::Index on every subject and index value.
InitRiaraIndex ==
    /\ RiaraParserIdle
    /\ LexersIdle
    /\ ParserIdle
    /\ EvaluatorIdle
    /\ ScopeInit
    /\ ix_subject \in {<<subject>> : subject \in IndexSubjects}
    /\ ix_value \in {<<value>> : value \in IndexWith}
    /\ ix_result = <<>>
    /\ BinaryIdle

SpecRiaraIndex == InitRiaraIndex /\ [][EvalIndex]_vars

\* The binary operators of both evaluators: either couch-lang's
\* evaluate_expression runs on an expression, in empty contexts, or riara's
\* eval_expr runs on an Expr::Binary.
InitBinaryOperators ==
    /\ RiaraParserIdle
    /\ LexersIdle
    /\ ParserIdle
    /\ EvaluatorIdle
    /\ ScopeInit
    /\ IndexIdle
    /\ rb_expr \in {<<>>} \cup {<<expr>> : expr \in BinaryExprs}
    /\ rb_result = <<>>
    /\ rb_panic = <<>>

NextBinaryOperators ==
    \/ rb_expr = <<>> /\ EvaluateExpressionCall
    \/ EvalBinary

SpecBinaryOperators == InitBinaryOperators /\ [][NextBinaryOperators]_vars

\* The tokens of arithmetic: three identifiers, an integer, the four operators
\* and `not`.
ArithmeticTokens ==
    {QToken("Id", <<"a">>), QToken("Id", <<"b">>), QToken("Id", <<"c">>),
     QToken("Int", <<"5">>), QToken("Plus", <<"+">>), QToken("Minus", <<"-">>),
     QToken("Asterisk", <<"*">>), QToken("Slash", <<"/">>),
     QToken("Not", <<"n", "o", "t">>)}

LogicOperands ==
    {QToken("True", <<"t", "r", "u", "e">>), QToken("False", <<"f", "a", "l", "s", "e">>),
     QToken("Id", <<"a">>)}

LogicOperators ==
    {QToken("Or", <<"o", "r">>), QToken("And", <<"a", "n", "d">>), QToken("In", <<"i", "n">>)}

\* Every sequence of up to MaxParsed arithmetic tokens, and the chains of two
\* logic operators.
ParsedTokens ==
    UNION {[1..n -> ArithmeticTokens] : n \in 0..MaxParsed}
    \cup {<<x, f, y, g, z>> : x \in LogicOperands, f \in LogicOperators, y \in LogicOperands,
                              g \in LogicOperators, z \in LogicOperands}

\* Parser::parse on every such sequence of tokens.
InitRiaraParser ==
    /\ LexersIdle
    /\ ParserIdle
    /\ EvaluatorIdle
    /\ RuntimeIdle
    /\ q_tokens \in ParsedTokens
    /\ RiaraParserInit
    /\ MainIdle

SpecRiaraParser == InitRiaraParser /\ [][ParseCall]_vars

\* The tokens of blocks, of arrays and tuples, and of `if`, strings and the
\* lexer's Error token.
BlockTokens ==
    {QToken("Id", <<"a">>), QToken("Int", <<"1">>), QToken("LBrace", <<"{">>),
     QToken("RBrace", <<"}">>), QToken("Semicolon", <<";">>),
     QToken("Let", <<"l", "e", "t">>), QToken("Equal", <<"=">>), QToken("RParen", <<")">>)}

BracketTokens ==
    {QToken("Id", <<"a">>), QToken("Int", <<"1">>), QToken("LBracket", <<"[">>),
     QToken("RBracket", <<"]">>), QToken("Comma", <<",">>), QToken("LParen", <<"(">>),
     QToken("RParen", <<")">>)}

BranchTokens ==
    {QToken("Id", <<"a">>), QToken("String", <<"\"", "\\", "n", "\"">>),
     QToken("If", <<"i", "f">>), QToken("Else", <<"e", "l", "s", "e">>),
     QToken("LBrace", <<"{">>), QToken("RBrace", <<"}">>), QToken("Error", <<"$">>)}

\* Every sequence of up to MaxParsed tokens of one of these kinds.
ProgramTokens ==
    UNION {UNION {[1..n -> kind] : n \in 0..MaxParsed} :
              kind \in {BlockTokens, BracketTokens, BranchTokens}}

\* Parser::parse on every such sequence of tokens.
InitRiaraProgram ==
    /\ LexersIdle
    /\ ParserIdle
    /\ EvaluatorIdle
    /\ RuntimeIdle
    /\ q_tokens \in ProgramTokens
    /\ RiaraParserInit
    /\ MainIdle

SpecRiaraProgram == InitRiaraProgram /\ [][ParseCall]_vars

MainAlphabet == {"a", "1", "{", "}", ";", "[", ",", "(", ")", "\"", "$"}

\* main on every text of up to MaxTextLen of these chars.
InitRiaraMain ==
    /\ text \in UNION {[1..n -> MainAlphabet] : n \in 0..MaxTextLen}
    /\ CouchLexInit
    /\ RiaraLexInit
    /\ ParserIdle
    /\ EvaluatorIdle
    /\ RuntimeIdle
    /\ RiaraParserIdle

SpecRiaraMain == InitRiaraMain /\ [][Main]_vars

-----------------------------------------------------------------------------
(* Claims *)

\* C1: for every token either lexer emits, the bytes of the source at the
\* offsets [token.index, token.index + token.length) are a valid slice and are
\* exactly the chars the lexer consumed for that token.
C1_ResliceYieldsLexeme ==
    /\ \A k \in 1..Len(tokens) :
         /\ SliceOk(text, tokens[k].index, tokens[k].length)
         /\ ByteSlice(text, tokens[k].index, tokens[k].length)
              = CharBytes(text, spans[k][1], spans[k][2])
    /\ \A k \in 1..Len(r_tokens) :
         /\ SliceOk(text, r_tokens[k].pos.index, r_tokens[k].length)
         /\ ByteSlice(text, r_tokens[k].pos.index, r_tokens[k].length)
              = CharBytes(text, r_spans[k][1], r_spans[k][2])

\* The end (0-based, exclusive) of the maximal run of digits and '.' that
\* starts at char position p.
RECURSIVE RunEnd(_, _)
RunEnd(t, p) ==
    IF p < Len(t) /\ t[p + 1] \in Digits \cup {"."} THEN RunEnd(t, p + 1) ELSE p

\* The char positions of the dots of the run [from, end).
RunDots(t, from, end) == {p \in from..(end - 1) : t[p + 1] = "."}

\* The position of the second dot of a run that has two.
SecondDot(dots) ==
    CHOOSE p \in dots : Cardinality({q \in dots : q < p}) = 1

\* What C2 says of the k-th couch token when it starts with a digit.
NumberTokenAsClaimed(k) ==
    LET from == spans[k][1]
        end  == RunEnd(text, from)
        dots == RunDots(text, from, end)
        tok  == tokens[k]
    IN  /\ tok.index = from
        /\ Cardinality(dots) = 0 =>
             tok.variant = "Integer" /\ tok.length = end - from /\ spans[k][2] = end
        /\ Cardinality(dots) = 1 =>
             tok.variant = "Float" /\ tok.length = end - from /\ spans[k][2] = end
        /\ Cardinality(dots) >= 2 =>
             /\ tok.variant = "Error"
             /\ tok.length = SecondDot(dots) - from + 1
             /\ spans[k][2] = SecondDot(dots) + 1
             /\ (k = Len(tokens) /\ ~exhausted) => iter.index = SecondDot(dots) + 1

\* C2: make_number lexes the maximal run of digits and '.' that starts with a
\* digit as one Integer (no dot) or Float (one dot, also a trailing one); at a
\* second dot it emits one Error token from the first digit through that dot,
\* and lexing resumes with the char after it.
C2_MakeNumber ==
    \A k \in 1..Len(tokens) :
        text[spans[k][1] + 1] \in Digits => NumberTokenAsClaimed(k)

\* C2's case: an Error token for a run with two dots, and a token lexed after it.
C2_Witness ==
    \E k \in 1..Len(tokens) :
        /\ k < Len(tokens)
        /\ text[spans[k][1] + 1] \in Digits
        /\ tokens[k].variant = "Error"
        /\ tokens[k].length = 3
        /\ tokens[k + 1].index = tokens[k].index + 3

\* The chars of t before the char at index `index`.
Before(t, index) == SubSeq(t, 1, index)

\* The number of line feeds among the chars.
LineFeeds(chars) == Cardinality({k \in 1..Len(chars) : chars[k] = "\n"})

\* The number of chars after the last line feed, or all of them without one.
RECURSIVE AfterLastLineFeed(_)
AfterLastLineFeed(chars) ==
    IF chars = <<>> THEN 0
    ELSE IF chars[Len(chars)] = "\n" THEN 0
    ELSE 1 + AfterLastLineFeed(Front(chars))

\* The variants of the tokens that start with the char.
VariantsFrom(c) ==
    CASE c \in Digits -> {"Integer", "Float", "Error"}
      [] c = "/" -> {"Slash", "SlashEqual"}
      [] c = "*" -> {"Asterisk", "AsteriskEqual"}
      [] c = "=" -> {"Equal", "DoubleEqual"}
      [] c \in {" ", "\n"} -> {}
      [] c = "a" -> {"Identifier"}
      [] OTHER -> {"Error"}

\* The token starts at a char of the text that starts a token of its variant,
\* after the token before it.
StartsAtItsFirstChar(k) ==
    /\ tokens[k].index < Len(text)
    /\ tokens[k].variant \in VariantsFrom(text[tokens[k].index + 1])
    /\ k > 1 => tokens[k].index > tokens[k - 1].index

\* C15: every token of the couch-lang lexer carries index = the number of
\* chars before its first char, line = 1 + the number of line feeds before it
\* and column = 1 + the number of chars between the last line feed before it
\* (or the start of the text) and it, also after skipped blanks, line feeds,
\* line comments and block comments of more than one line.
C15_TokenPositions ==
    \A k \in 1..Len(tokens) :
        /\ StartsAtItsFirstChar(k)
        /\ tokens[k].line = 1 + LineFeeds(Before(text, tokens[k].index))
        /\ tokens[k].column = 1 + AfterLastLineFeed(Before(text, tokens[k].index))

\* `/*` line feed `*/5`: the Integer after the comment is at index 5, line 2,
\* column 3.
C15_Witness ==
    /\ text = <<"/", "*", "\n", "*", "/", "5">>
    /\ Len(tokens) = 1
    /\ tokens[1].variant = "Integer"
    /\ tokens[1].index = 5
    /\ tokens[1].line = 2
    /\ tokens[1].column = 3


\* The four whitespace chars: space, tab, carriage return and line feed.
Whitespace == {" ", "\t", "\r", "\n"}

\* The first char of the k-th token.
FirstChar(k) == text[tokens[k].index + 1]

\* C17: the couch-lang lexer discards space, tab, carriage return and line
\* feed: none of them produces a token, in particular no Error token, and the
\* tokens on either side are emitted unchanged.
C17_WhitespaceDiscarded ==
    \A k \in 1..Len(tokens) : FirstChar(k) \notin Whitespace


\* The chars of the texts that neither lexer recognises.
Unrecognised == {MultiByte}

\* Every call of the couch-lang lexer that made a token consumed a char, and
\* the call that made none was at the end of the text.
CouchLexerProgresses ==
    /\ \A k \in 1..Len(spans) : spans[k][2] > spans[k][1]
    /\ exhausted => iter.index = Len(text)

\* Every call of the riara lexer has returned, each with a token that consumed
\* a char or with Eof at the end of the text.
RiaraLexerProgresses ==
    /\ ~r_panicked
    /\ \A k \in 1..Len(r_tokens) :
         IF r_tokens[k].token_type = "Eof"
         THEN r_spans[k][2] = Len(text)
         ELSE r_spans[k][2] > r_spans[k][1]

\* A token that starts at an unrecognised char is an Error token of exactly
\* that char, and the lexer is at the next char after it.
UnrecognisedCharsAreErrors ==
    /\ \A k \in 1..Len(tokens) :
         text[tokens[k].index + 1] \in Unrecognised =>
             /\ tokens[k].variant = "Error"
             /\ tokens[k].length = 1
             /\ spans[k] = <<tokens[k].index, tokens[k].index + 1>>
    /\ \A k \in 1..Len(r_tokens) :
         (r_tokens[k].token_type # "Eof"
            /\ text[r_tokens[k].pos.index + 1] \in Unrecognised) =>
             /\ r_tokens[k].token_type = "Error"
             /\ r_tokens[k].length = 1
             /\ r_spans[k] = <<r_tokens[k].pos.index, r_tokens[k].pos.index + 1>>

\* C18: both lexers terminate on every text: each call consumes a char at
\* least or reports the end of input, so the tokens end after the last char;
\* a char outside the recognised set gives exactly one Error token whose span
\* is that one char, and lexing goes on with the next char.
C18_LexersTerminate ==
    /\ CouchLexerProgresses
    /\ RiaraLexerProgresses
    /\ UnrecognisedCharsAreErrors



-----------------------------------------------------------------------------
(* Claims about the couch-lang parser *)

OperandVariants == {"Integer", "Float", "Identifier"}

\* The precedence levels C3 names, as sets of operator tokens.
SameLevelOperators ==
    {{"Plus", "Minus"}, {"Asterisk", "Slash"}, {"DoubleEqual", "ExclamationEqual"}}

\* The BinaryVariant an operator token stands for.
VariantOfOperator(variant) ==
    CASE variant = "Plus" -> "Addition"
      [] variant = "Minus" -> "Subtraction"
      [] variant = "Asterisk" -> "Multiplication"
      [] variant = "Slash" -> "Division"
      [] variant = "DoubleEqual" -> "Equal"
      [] OTHER -> "NotEqual"

\* The tokens are `a op1 b op2 c` with op1 and op2 of one level.
IsSameLevelChain(ts) ==
    /\ Len(ts) = 5
    /\ \A k \in {1, 3, 5} : ts[k].variant \in OperandVariants
    /\ \E level \in SameLevelOperators : {ts[2].variant, ts[4].variant} \subseteq level

\* Binary(a, op, b), positioned at a.
BinaryOf(a, op, b) ==
    Node([kind |-> "Binary", variant |-> VariantOfOperator(op.variant),
          left |-> a, right |-> b],
         a.position)

\* C3: a chain `a op1 b op2 c` of same-level binary operators parses to
\* Binary(a, op1, Binary(b, op2, c)).
C3_RightAssociative ==
    (p_parsed # <<>> /\ IsSameLevelChain(p_tokens)) =>
        LET a == ParseOperand(p_tokens, 0).node
            b == ParseOperand(p_tokens, 2).node
            c == ParseOperand(p_tokens, 4).node
        IN  /\ p_parsed[1] = BinaryOf(a, p_tokens[2], BinaryOf(b, p_tokens[4], c))
            /\ p_next = 5

\* C3's case: `20 - 20 - 20` has been parsed.
C3_Witness ==
    /\ p_parsed # <<>>
    /\ IsSameLevelChain(p_tokens)
    /\ \A k \in {1, 3, 5} : p_tokens[k].lexeme = <<"2", "0">>
    /\ \A k \in {2, 4} : p_tokens[k].variant = "Minus"
    /\ p_parsed[1].value.right.value.kind = "Binary"

AdditiveOperators == {"Plus", "Minus"}

MultiplicativeOperators == {"Asterisk", "Slash"}

\* The tokens are `a op1 b op2 c` with op1 of `first` and op2 of `second`.
IsChainOf(ts, first, second) ==
    /\ Len(ts) = 5
    /\ \A k \in {1, 3, 5} : ts[k].variant \in OperandVariants
    /\ ts[2].variant \in first
    /\ ts[4].variant \in second

\* The tokens are `- a op b` with op an additive or multiplicative operator.
IsNegatedLeft(ts) ==
    /\ Len(ts) = 4
    /\ ts[1].variant = "Minus"
    /\ ts[2].variant \in OperandVariants
    /\ ts[3].variant \in AdditiveOperators \cup MultiplicativeOperators
    /\ ts[4].variant \in OperandVariants

\* Unary(-, a), positioned at the minus.
NegationOf(minus, a) ==
    Node([kind |-> "Unary", variant |-> "NegateNumber", subject |-> a], PositionOf(minus))

\* The node of the operand that is token k.
OperandAt(k) == ParseOperand(p_tokens, k - 1).node

\* C14: multiplicative operators bind tighter than additive ones on either
\* side, and unary minus binds tighter than both: `a * b + c` parses as
\* (a * b) + c, `a + b * c` as a + (b * c) and `-a + b` as (-a) + b.
C14_Precedence ==
    p_parsed # <<>> =>
        /\ IsChainOf(p_tokens, MultiplicativeOperators, AdditiveOperators) =>
             p_parsed[1] = BinaryOf(BinaryOf(OperandAt(1), p_tokens[2], OperandAt(3)),
                                    p_tokens[4], OperandAt(5))
        /\ IsChainOf(p_tokens, AdditiveOperators, MultiplicativeOperators) =>
             p_parsed[1] = BinaryOf(OperandAt(1), p_tokens[2],
                                    BinaryOf(OperandAt(3), p_tokens[4], OperandAt(5)))
        /\ IsNegatedLeft(p_tokens) =>
             p_parsed[1] = BinaryOf(NegationOf(p_tokens[1], OperandAt(2)),
                                    p_tokens[3], OperandAt(4))
        /\ (\/ IsChainOf(p_tokens, MultiplicativeOperators, AdditiveOperators)
            \/ IsChainOf(p_tokens, AdditiveOperators, MultiplicativeOperators)
            \/ IsNegatedLeft(p_tokens)) => p_next = Len(p_tokens)

\* C14's cases: `a * 2.5 + 20` has been parsed, the product on the left.
C14_Witness ==
    /\ p_parsed # <<>>
    /\ IsChainOf(p_tokens, {"Asterisk"}, {"Plus"})
    /\ p_tokens[1].variant = "Identifier"
    /\ p_parsed[1].value.variant = "Addition"
    /\ p_parsed[1].value.left.value.kind = "Binary"
    /\ p_parsed[1].value.left.value.variant = "Multiplication"
    /\ p_parsed[1].value.right.value.kind = "Integer"

-----------------------------------------------------------------------------
(* Claims about the couch-lang evaluator *)

ArithmeticVariants == {"Addition", "Subtraction", "Multiplication", "Division"}

\* The arithmetic a binary operator stands for: a + b, a - b, a * b, a / b.
OwnArithmetic(variant, a, b) ==
    CASE variant = "Addition" -> a + b
      [] variant = "Subtraction" -> a - b
      [] variant = "Multiplication" -> a * b
      [] OTHER -> TruncDiv(a, b)

\* The expression is built of integer literals and + - * / only.
RECURSIVE IsIntegerArithmetic(_)
IsIntegerArithmetic(node) ==
    IF node.value.kind = "Integer" THEN TRUE
    ELSE IF node.value.kind # "Binary" THEN FALSE
    ELSE /\ node.value.variant \in ArithmeticVariants
         /\ IsIntegerArithmetic(node.value.left)
         /\ IsIntegerArithmetic(node.value.right)

\* The integer such an expression denotes.
RECURSIVE OwnValue(_)
OwnValue(node) ==
    IF node.value.kind = "Integer" THEN node.value.v
    ELSE OwnArithmetic(node.value.variant, OwnValue(node.value.left),
                       OwnValue(node.value.right))

\* No division of the expression has the divisor 0.
RECURSIVE DivisorsNonZero(_)
DivisorsNonZero(node) ==
    IF node.value.kind = "Integer" THEN TRUE
    ELSE /\ DivisorsNonZero(node.value.left)
         /\ DivisorsNonZero(node.value.right)
         /\ node.value.variant = "Division" => OwnValue(node.value.right) # 0

\* C4: an expression of integer literals and + - * / (no zero divisor)
\* evaluates to the Integer its operators denote, each operator with its own
\* arithmetic; `20 - (10 - 5)` evaluates to Integer 15.
C4_OwnArithmetic ==
    \A k \in 1..Len(c_expression) :
        (IsIntegerArithmetic(c_expression[k]) /\ DivisorsNonZero(c_expression[k])) =>
            c_result = <<IntegerValue(OwnValue(c_expression[k]))>>

\* The value of an operand of the expression evaluated, in the contexts it was
\* evaluated in.
OperandValue(node) == EvaluateExpression(node, outer_context, inner_context)

\* The messages that name the kinds of l and r, one for each operator.
KindMessages(l, r) ==
    {"no implementation exists for " \o Display(l) \o " " \o op \o " " \o Display(r) :
       op \in {"+", "-", "*", "/"}}

\* What C5 says of the result of `node`, whose operands have the values l, r.
KindPairing(node, l, r) ==
    IF l.kind = "Integer" /\ r.kind = "Integer"
    THEN c_result # <<>> /\ c_result[1].kind = "Integer"
    ELSE IF l.kind = "Float" /\ r.kind = "Float"
    THEN c_result # <<>> /\ c_result[1].kind = "Float"
    ELSE c_result \in {<<ErrorValue(message, node.position.line, node.position.column)>> :
                         message \in KindMessages(l, r)}

\* The expression evaluated is a binary `node` of one of `variants` whose
\* two operands have values.
IsBinaryOnValues(node, variants) ==
    /\ node.value.kind = "Binary"
    /\ node.value.variant \in variants
    /\ OperandValue(node.value.left).kind # "Panic"
    /\ OperandValue(node.value.right).kind # "Panic"

\* C5: a binary + - * / on two Integers yields an Integer, on two Floats a
\* Float, and on any other pair of operand kinds a Value::Error at the line
\* and column of the binary node whose message names both kinds.
C5_KindPairing ==
    \A k \in 1..Len(c_expression) :
        IsBinaryOnValues(c_expression[k], ArithmeticVariants) =>
            KindPairing(c_expression[k], OperandValue(c_expression[k].value.left),
                        OperandValue(c_expression[k].value.right))

\* Statement k of the evaluated list is `let mut x = A;` for an integer
\* literal A.
IsLetMutInteger(k) ==
    /\ c_statements[k].value.kind = "Let"
    /\ c_statements[k].value.mutable
    /\ c_statements[k].value.identifier.value.kind = "Identifier"
    /\ c_statements[k].value.value.value.kind = "Integer"

\* Statement k is `x op= e;` with op one of + - * / and e an integer literal
\* or x itself, where `let` is the statement that declared x.
IsCompoundOn(k, let) ==
    /\ c_statements[k].value.kind = "Assignment"
    /\ c_statements[k].value.variant \in ArithmeticVariants
    /\ c_statements[k].value.left.value = let.value.identifier.value
    /\ \/ c_statements[k].value.right.value.kind = "Integer"
       \/ c_statements[k].value.right.value = let.value.identifier.value

\* The integer b of `x op= e`: the literal e, or a when e is x.
CompoundOperand(assignment, let) ==
    IF assignment.value.right.value.kind = "Integer"
    THEN assignment.value.right.value.v
    ELSE let.value.value.value.v

\* What C6 says of x, declared by `let` and assigned by `assignment`, once the
\* statements up to k + 1 (the assignment) are evaluated.
CompoundAssigned(k, let, assignment, a, b) ==
    /\ Len(c_statements) = k + 1 =>
         /\ c_result = <<>>
         /\ c_panic = <<>>
         /\ OperandValue(let.value.identifier)
              = IntegerValue(OwnArithmetic(assignment.value.variant, a, b))
    /\ (Len(c_statements) = k + 2 /\ c_statements[k + 2].value.kind = "Expression"
          /\ c_statements[k + 2].value.expression.value = let.value.identifier.value) =>
         c_result = <<IntegerValue(OwnArithmetic(assignment.value.variant, a, b))>>

\* C6: after `let mut x = a` the compound assignment `x op= b` of integers
\* (b # 0 for /) yields no value and makes a read of x yield a op b.
C6_CompoundAssignment ==
    \A k \in 1..(Len(c_statements) - 1) :
        (/\ IsLetMutInteger(k)
         /\ IsCompoundOn(k + 1, c_statements[k])
         /\ c_statements[k + 1].value.variant = "Division"
              => CompoundOperand(c_statements[k + 1], c_statements[k]) # 0) =>
            CompoundAssigned(k, c_statements[k], c_statements[k + 1],
                             c_statements[k].value.value.value.v,
                             CompoundOperand(c_statements[k + 1], c_statements[k]))

\* C6's case: `let mut a = 5; a += 5; a;` has returned Integer 10.
C6_Witness ==
    /\ Len(c_statements) = 3
    /\ IsLetMutInteger(1)
    /\ c_statements[1].value.value.value.v = 5
    /\ IsCompoundOn(2, c_statements[1])
    /\ c_statements[2].value.variant = "Addition"
    /\ c_statements[2].value.right.value = [kind |-> "Integer", v |-> 5]
    /\ c_statements[3].value.kind = "Expression"
    /\ c_statements[3].value.expression.value = c_statements[1].value.identifier.value
    /\ c_result = <<IntegerValue(10)>>

\* The three ways C7 names in which a binding refuses an assignment.
Refusal(found) ==
    IF found = <<>> THEN "undeclared"
    ELSE IF found[1].type = "Function" THEN "function"
    ELSE IF ~found[1].mutable THEN "immutable"
    ELSE "none"

\* The message of each refusal of an assignment to `identifier`.
RefusalMessage(refusal, identifier) ==
    CASE refusal = "undeclared" -> "identifier " \o identifier \o " not defined"
      [] refusal = "immutable" -> "identifier " \o identifier \o " is not mutable"
      [] OTHER -> "function definitions are not mutable"

\* What C7 says of the assignment `statement` to `identifier`, which the
\* contexts before it refuse.
Refused(statement, identifier, refusal) ==
    /\ c_result = <<ErrorValue(RefusalMessage(refusal, identifier),
                               statement.position.line, statement.position.column)>>
    /\ \A other \in {"undeclared", "immutable", "function"} \ {refusal} :
         RefusalMessage(other, identifier) # RefusalMessage(refusal, identifier)
    /\ Contexts(outer_context, inner_context) = c_before

\* C7: an assignment, plain or compound, to an identifier that is undeclared,
\* declared without mut, or bound to a function yields a Value::Error whose
\* message tells the three apart, and leaves both contexts as they were.
C7_RefusedAssignment ==
    \A k \in 1..Len(c_statements) :
        (/\ k = Len(c_statements)
         /\ c_statements[k].value.kind = "Assignment"
         /\ c_statements[k].value.left.value.kind = "Identifier"
         /\ Refusal(Lookup(c_before.outer_context, c_before.inner_context,
                           c_statements[k].value.left.value.name)) # "none") =>
            Refused(c_statements[k], c_statements[k].value.left.value.name,
                    Refusal(Lookup(c_before.outer_context, c_before.inner_context,
                                   c_statements[k].value.left.value.name)))

\* Two values of one kind are structurally equal: the same fields.
StructurallyEqual(l, r) == l.kind = r.kind /\ l = r

\* Two values are equal as Rust compares them: of one kind, with the same
\* fields, a Float field compared as IEEE 754 does (NaN equals nothing, 0.0
\* equals -0.0).
PartialEqual(l, r) ==
    /\ l.kind = r.kind
    /\ IF l.kind # "Float" THEN l = r
       ELSE /\ l.v.c # "nan"
            /\ r.v.c # "nan"
            /\ (l.v.c = "zero" /\ r.v.c = "zero") \/ l.v = r.v

\* C9 as stated: `==` and `!=` on two operand values yield a Bool and no
\* error; `==` is true exactly when the values are of one kind and
\* structurally equal, `!=` is its negation.
C9_StructuralEquality ==
    \A k \in 1..Len(c_expression) :
        IsBinaryOnValues(c_expression[k], {"Equal", "NotEqual"}) =>
            c_result = <<BoolValue((c_expression[k].value.variant = "Equal")
                                   <=> StructurallyEqual(
                                         OperandValue(c_expression[k].value.left),
                                         OperandValue(c_expression[k].value.right)))>>

\* C9 amended: `==` and `!=` on two operand values yield a Bool and no error;
\* `==` is true exactly when the values are of one kind and equal as Rust
\* compares them, `!=` is its negation.
C9_PartialEquality ==
    \A k \in 1..Len(c_expression) :
        IsBinaryOnValues(c_expression[k], {"Equal", "NotEqual"}) =>
            c_result = <<BoolValue((c_expression[k].value.variant = "Equal")
                                   <=> PartialEqual(
                                         OperandValue(c_expression[k].value.left),
                                         OperandValue(c_expression[k].value.right)))>>

\* C9's case: `2 == 2.5`, an Integer and a Float, has yielded Bool(false).
C9_Witness ==
    /\ c_expression # <<>>
    /\ IsBinaryOnValues(c_expression[1], {"Equal"})
    /\ OperandValue(c_expression[1].value.left) = IntegerValue(2)
    /\ OperandValue(c_expression[1].value.right).kind = "Float"
    /\ c_result = <<BoolValue(FALSE)>>

\* evaluate_statements has returned: find_map has found a Some or has gone
\* through the whole list.
StatementsReturned == c_panic = <<>> /\ (c_result # <<>> \/ c_remaining = 0)

\* No statement evaluated has produced a runtime error.
NoRuntimeError == c_result = <<>> \/ c_result[1].kind # "Error"

\* What the last statement evaluated gives, in the contexts it was evaluated in.
LastStatementResult ==
    IF c_statements = <<>> THEN <<>>
    ELSE EvaluateStatement(c_statements[Len(c_statements)],
                           c_before.outer_context, c_before.inner_context).result

\* C11: when no statement produces a runtime error, evaluate_statements
\* evaluates every statement of the list, in order, and returns the value of
\* the last one: None when that is a let or an assignment, and `1; 2;` gives
\* Integer 2.
C11_LastStatementValue ==
    (StatementsReturned /\ NoRuntimeError) =>
        /\ c_remaining = 0
        /\ c_result = LastStatementResult

\* The operands in an expression: the subject of a unary operator, the two
\* sides of a binary one, and the operands in these.
RECURSIVE Operands(_)
Operands(expression) ==
    CASE expression.value.kind = "Unary" ->
           {expression.value.subject} \cup Operands(expression.value.subject)
      [] expression.value.kind = "Binary" ->
           {expression.value.left, expression.value.right}
             \cup Operands(expression.value.left) \cup Operands(expression.value.right)
      [] OTHER -> {}

\* The sub-expressions of a statement: the initialiser of a let, the right
\* side of an assignment, and every operand.
SubExpressions(statement) ==
    CASE statement.value.kind = "Let" ->
           {statement.value.value} \cup Operands(statement.value.value)
      [] statement.value.kind = "Assignment" ->
           {statement.value.right} \cup Operands(statement.value.right)
      [] statement.value.kind = "Expression" -> Operands(statement.value.expression)
      [] OTHER -> {}

\* The runtime errors the sub-expressions of the statement yield in the contexts.
SubExpressionErrors(statement, contexts) ==
    {value \in {EvaluateExpression(e, contexts.outer_context, contexts.inner_context) :
                  e \in SubExpressions(statement)} : value.kind = "Error"}

\* The errors of the sub-expressions of the last statement evaluated.
LastSubExpressionErrors ==
    IF c_statements = <<>> THEN {}
    ELSE SubExpressionErrors(c_statements[Len(c_statements)], c_before)

\* C12: when a sub-expression of a statement (an operand, a let initialiser,
\* the right side of an assignment) yields a runtime error, evaluate_statements
\* returns that same error, message, line and column unchanged, the statement
\* creates or changes no binding, and no later statement is evaluated.
C12_ErrorPropagates ==
    LastSubExpressionErrors # {} =>
        /\ c_panic = <<>>
        /\ c_result # <<>>
        /\ c_result[1] \in LastSubExpressionErrors
        /\ Contexts(outer_context, inner_context) = c_before

-----------------------------------------------------------------------------
(* Claims about parse_statements *)

\* The expressions in an expression: itself and the operands in it.
ExpressionsIn(expression) == {expression} \cup Operands(expression)

\* The expressions in a statement.
ExpressionsOf(statement) ==
    CASE statement.value.kind = "Let" ->
           {statement.value.identifier} \cup ExpressionsIn(statement.value.value)
      [] statement.value.kind = "Assignment" ->
           ExpressionsIn(statement.value.left) \cup ExpressionsIn(statement.value.right)
      [] statement.value.kind = "Expression" -> ExpressionsIn(statement.value.expression)
      [] statement.value.kind = "Return" ->
           UNION {ExpressionsIn(statement.value.value[k]) :
                    k \in 1..Len(statement.value.value)}
      [] OTHER -> {}

\* The token at the position.
TokenAt(position) == CHOOSE token \in {p_tokens[k] : k \in 1..Len(p_tokens)} :
                        token.index = position.index

\* parse_statements has not panicked.
ReturnsNormally == \A k \in 1..Len(p_parsed) : p_parsed[k].value.kind # "Panic"

\* No token that is no operand stands where an operand is required without an
\* Error node: every Identifier, Integer and Float node is made of a token of
\* its kind.
OperandsAreOperands ==
    \A k \in 1..Len(p_parsed) : \A expression \in ExpressionsOf(p_parsed[k]) :
        expression.value.kind \in OperandVariants =>
            TokenAt(expression.position).variant = expression.value.kind

\* C16: on every token sequence of the lexer parse_statements returns
\* normally, without a panic or an unimplemented branch, and every local
\* grammar violation (an unexpected token where an operand is required, a
\* missing `=` or `;`, a premature end of input) is in the returned list as an
\* Error node with a message and the position of the offending token.
C16_ParsesOrReports == ReturnsNormally /\ OperandsAreOperands

-----------------------------------------------------------------------------
(* riara evaluator claims *)

\* The binding of the id in the innermost of the scopes that defines it.
RECURSIVE Innermost(_, _)
Innermost(scopes, id) ==
    IF scopes = <<>> THEN <<>>
    ELSE IF scopes[Len(scopes)][id] # <<>> THEN scopes[Len(scopes)][id]
    ELSE Innermost(Front(scopes), id)

\* A block is running: eval_expr is in its statements, with no Err on its way out.
BlockRuns == rt_frames # <<>> /\ rt_pending = <<>> /\ rt_result = <<>>

\* A block has just left its scope and returns a value.
BlockExitedNormally == rt_exited # <<>> /\ rt_exited[1].result.ok

InnermostBindingFound ==
    BlockRuns => \A id \in Ids : Binding(symbols, id) = Innermost(rt_scopes, id)

BindingsRestored ==
    BlockExitedNormally =>
        /\ \A id \in Ids : Binding(symbols, id) = rt_exited[1].before[id]
        /\ \A k \in 1..Len(symbols) : symbols[k].stack_depth <= stack_depth

\* C8: in blocks nested to any depth, while a block runs a lookup of a name
\* gives the binding of the innermost block that defines it, and once a block
\* has exited normally every binding made inside it is gone and every name
\* resolves as it did just before the block was entered: a name bound around
\* it to the same value, a name defined only inside it to nothing.
C8_BlockScoping == InnermostBindingFound /\ BindingsRestored

\* `{ let x = 1; { let x = 2; x } }`: the inner block has returned 2 and x is 1
\* again; y, defined nowhere, is undefined.
C8_Witness ==
    /\ BlockExitedNormally
    /\ rt_exited[1].result = Ok(RValue("Int", 2))
    /\ rt_pending # <<>> /\ rt_pending[1].role = "tail"
    /\ Len(rt_frames) = 1
    /\ rt_exited[1].before["x"] = <<RValue("Int", 1)>>
    /\ Binding(symbols, "x") = <<RValue("Int", 1)>>
    /\ Binding(symbols, "y") = <<>>
    /\ Len(symbols) = 1

IsIndexable == ix_subject[1].kind \in {"String", "Tuple", "Array"} /\ ix_value[1].kind = "Int"

IsRuntimeError(result) == ~result.ok /\ result.error_type = "Runtime"

\* The element at position i, counted from 0: a char of a string as a Value::Char.
ElementAt(subject, i) ==
    IF subject.kind = "String" THEN RValue("Char", subject.v[i + 1]) ELSE subject.v[i + 1]

\* C10: indexing a string, tuple or array of length n with an integer i gives
\* the element or char at position i when 0 <= i < n and a runtime error when
\* i >= n or i < 0; indexing any other kind of subject, or with a value that is
\* no integer, gives a runtime error too.
C10_Index ==
    ix_result # <<>> =>
        IF IsIndexable /\ 0 <= ix_value[1].v /\ ix_value[1].v < Len(ix_subject[1].v)
        THEN ix_result[1] = Ok(ElementAt(ix_subject[1], ix_value[1].v))
        ELSE IsRuntimeError(ix_result[1])

\* An array of two values indexed with -1: "index overflow".
C10_Witness ==
    /\ ix_result # <<>>
    /\ ix_subject[1].kind = "Array" /\ Len(ix_subject[1].v) = 2
    /\ ix_value[1] = RValue("Int", 0 - 1)
    /\ ix_result[1] = Err("index overflow")

\* A Block expression has just returned to the expression around it.
BlockReturned == rt_pending # <<>>

\* stack_depth when the block that has just returned was called: a block is
\* called with every block around it entered and none of them left.
DepthAtCall == Len(rt_frames)

\* C20: every evaluation of a Block expression leaves the scope state as it
\* found it, whether it returns a value or a runtime error, also when one of
\* its statements fails: stack_depth is what it was at the call and no symbol
\* has a greater stack_depth.
C20_BlockLeavesScope ==
    BlockReturned =>
        /\ stack_depth = DepthAtCall
        /\ \A k \in 1..Len(symbols) : symbols[k].stack_depth <= DepthAtCall

\* No symbol is deeper than the evaluator.
SymbolsWithinDepth == \A k \in 1..Len(symbols) : symbols[k].stack_depth <= stack_depth

\* The symbol list is ordered by non-decreasing stack_depth.
SymbolsOrdered ==
    \A j, k \in 1..Len(symbols) : j < k => symbols[j].stack_depth <= symbols[k].stack_depth

\* At most one symbol for each pair (identifier, stack_depth).
SymbolsUnique ==
    \A j, k \in 1..Len(symbols) :
        (symbols[j].id = symbols[k].id /\ symbols[j].stack_depth = symbols[k].stack_depth)
            => j = k

\* find_symbol returns the entry of greatest depth for the name.
DeepestFound ==
    \A k \in 1..Len(symbols) :
        /\ FindSymbol(symbols, symbols[k].id) # <<>>
        /\ FindSymbol(symbols, symbols[k].id)[1].stack_depth >= symbols[k].stack_depth
        /\ FindSymbol(symbols, symbols[k].id)[1].stack_depth = symbols[k].stack_depth
              => FindSymbol(symbols, symbols[k].id)[1] = symbols[k]

\* C21: in every state of the evaluator every symbol's stack_depth is at most
\* the current stack_depth, the symbol list is ordered by non-decreasing
\* stack_depth, and there is at most one symbol for each pair (identifier,
\* stack_depth), so that find_symbol returns the entry of greatest depth for
\* the name.
C21_SymbolInvariants ==
    /\ SymbolsWithinDepth
    /\ SymbolsOrdered
    /\ SymbolsUnique
    /\ DeepestFound

\* A name defined at depth 1 is shadowed at depth 2, next to another name.
C21_Witness ==
    /\ stack_depth = 2
    /\ Len(symbols) = 3
    /\ \E j, k \in 1..Len(symbols) :
          /\ symbols[j].id = symbols[k].id
          /\ symbols[j].stack_depth = 1
          /\ symbols[k].stack_depth = 2

-----------------------------------------------------------------------------
(* Claims on both evaluators *)

\* couch-lang has evaluated a binary expression that is dispatched to the
\* division of two Integers, the divisor being 0.
CouchDividesByZero ==
    /\ c_expression # <<>>
    /\ c_expression[1].value.kind = "Binary"
    /\ c_expression[1].value.variant \in ArithmeticVariants
    /\ BinaryFunction(c_expression[1].value.variant) = "div"
    /\ OperandValue(c_expression[1].value.left).kind = "Integer"
    /\ OperandValue(c_expression[1].value.right) = IntegerValue(0)

\* riara has evaluated a division of two Ints, the divisor being 0.
RiaraDividesByZero ==
    /\ rb_expr # <<>>
    /\ rb_result # <<>> \/ rb_panic # <<>>
    /\ rb_expr[1].binary_type = "Divide"
    /\ rb_expr[1].left.kind = "Int"
    /\ rb_expr[1].right = RValue("Int", 0)

\* C13: an integer division whose divisor is 0 yields a recoverable runtime
\* error, a Value::Error in couch-lang and an Err in riara, and never a panic,
\* for every operator dispatched to the integer division.
C13_DivisionByZero ==
    /\ CouchDividesByZero =>
         c_panic = <<>> /\ c_result # <<>> /\ c_result[1].kind = "Error"
    /\ RiaraDividesByZero =>
         rb_panic = <<>> /\ rb_result # <<>> /\ IsRuntimeError(rb_result[1])


-----------------------------------------------------------------------------
(* Claims about the riara parser *)

IsQOperand(k) == q_tokens[k].token_type \in {"Id", "Int"}

IsQAdditive(k) == q_tokens[k].token_type \in {"Plus", "Minus"}

IsQMultiplicative(k) == q_tokens[k].token_type \in {"Asterisk", "Slash"}

\* The node of the operand that is token number k.
QOperandAt(k) ==
    RNode(IF q_tokens[k].token_type = "Id" THEN IdExpr(Str(q_tokens[k].value))
          ELSE IntExpr(ParseI64(q_tokens[k].value)), k)

\* The Binary node of the operator that is token number k.
QBinaryAt(k, left, right) ==
    RNode(BinaryExpr(CASE q_tokens[k].token_type = "Plus" -> "Add"
                       [] q_tokens[k].token_type = "Minus" -> "Subtract"
                       [] q_tokens[k].token_type = "Asterisk" -> "Multiply"
                       [] q_tokens[k].token_type = "Slash" -> "Divide",
                     left, right), k)

\* The tokens are three operands with two operators between them.
IsQChain ==
    /\ Len(q_tokens) = 5
    /\ IsQOperand(1) /\ IsQOperand(3) /\ IsQOperand(5)

\* C19: multiplicative operators bind tighter than additive ones on both sides
\* of an additive operator: parse returns Add(a, Multiply(b, c)) for
\* `a + b * c`, with no error recorded, and Add(Multiply(a, b), c) for
\* `a * b + c`.
C19_RiaraPrecedence ==
    (q_expr # <<>> /\ IsQChain) =>
        /\ (IsQAdditive(2) /\ IsQMultiplicative(4)) =>
               /\ q_expr[1]
                    = QBinaryAt(2, QOperandAt(1), QBinaryAt(4, QOperandAt(3), QOperandAt(5)))
               /\ q_errors = <<>>
        /\ (IsQMultiplicative(2) /\ IsQAdditive(4)) =>
               q_expr[1] = QBinaryAt(4, QBinaryAt(2, QOperandAt(1), QOperandAt(3)), QOperandAt(5))

\* C22: Parser::parse terminates for every input: every round of the loops of
\* parse_array_expr and parse_block_expr consumes a token or leaves the loop,
\* so the call returns an AST and a finite list of errors.
C22_ParseTerminates == q_stuck = ""

IsQSemicolon(k) == q_tokens[k].token_type = "Semicolon"

\* The tokens from the second to number `to` are one-token statements, each
\* but possibly the last followed by one or more `;`.
IsStatementRun(to) ==
    /\ \A k \in 2..to : IsQOperand(k) \/ IsQSemicolon(k)
    /\ to >= 2 => IsQOperand(2)
    /\ \A k \in 2..(to - 1) : ~(IsQOperand(k) /\ IsQOperand(k + 1))

\* The tokens are a block of such statements, closed by `}`.
IsClosedBlock ==
    /\ Len(q_tokens) >= 2
    /\ q_tokens[1].token_type = "LBrace"
    /\ q_tokens[Len(q_tokens)].token_type = "RBrace"
    /\ IsStatementRun(Len(q_tokens) - 1)

\* The tokens are a block of such statements that no `}` closes.
IsOpenBlock ==
    /\ Len(q_tokens) >= 1
    /\ q_tokens[1].token_type = "LBrace"
    /\ IsStatementRun(Len(q_tokens))

\* The nodes of the tokens numbered ks.
RECURSIVE QOperandsAt(_)
QOperandsAt(ks) == IF ks = <<>> THEN <<>> ELSE <<QOperandAt(Head(ks))>> \o QOperandsAt(Tail(ks))

\* The statements a `;` follows, in source order.
TerminatedStatements ==
    QOperandsAt(SelectSeq([k \in 1..(Len(q_tokens) - 1) |-> k],
                          LAMBDA k : IsQOperand(k) /\ IsQSemicolon(k + 1)))

\* The statement the closing `}` follows directly (an Option).
FinalStatement ==
    IF IsQOperand(Len(q_tokens) - 1) THEN <<QOperandAt(Len(q_tokens) - 1)>> ELSE <<>>

-----------------------------------------------------------------------------
(* Claims about riara main *)

\* Whether one of the nodes is or contains an Expr::Error.
RECURSIVE AnyHasError(_), HasError(_)
AnyHasError(nodes) == \E k \in 1..Len(nodes) : HasError(nodes[k])

\* Whether the AST is or contains an Expr::Error.
HasError(node) ==
    CASE node.value.kind = "Error" -> TRUE
      [] node.value.kind \in {"Tuple", "Array"} -> AnyHasError(node.value.exprs)
      [] node.value.kind = "Block" ->
             AnyHasError(node.value.statements) \/ AnyHasError(node.value.expr)
      [] node.value.kind = "If" ->
             \/ HasError(node.value.condition)
             \/ HasError(node.value.truthy)
             \/ AnyHasError(node.value.falsy)
      [] node.value.kind = "Index" ->
             HasError(node.value.subject) \/ HasError(node.value.value)
      [] node.value.kind = "Unary" -> HasError(node.value.subject)
      [] node.value.kind = "Binary" ->
             HasError(node.value.left) \/ HasError(node.value.right)
      [] node.value.kind = "Let" -> HasError(node.value.value)
      [] OTHER -> FALSE

\* The lexer has emitted an Error token.
ErrorTokenEmitted == \E k \in 1..Len(r_tokens) : r_tokens[k].token_type = "Error"

\* C28: whenever the AST parse returned contains an Expr::Error, or the lexer
\* emitted an Error token, an error has been recorded in the parser's or the
\* lexer's ErrorCollector; so main never calls eval_expr on an AST that
\* contains an Expr::Error.
C28_ErrorsRecorded ==
    /\ (q_expr # <<>> /\ HasError(q_expr[1])) => q_errors # <<>>
    /\ ErrorTokenEmitted => r_errors # <<>>
    /\ (m_errors # <<>> /\ (HasError(q_expr[1]) \/ ErrorTokenEmitted)) =>
           (m_errors[1] # <<>> /\ m_evaluated = <<>>)
    /\ m_evaluated # <<>> => ~HasError(m_evaluated[1])

\* main has parsed a text whose AST contains an Expr::Error and in which the
\* lexer found an Error token, and has returned without evaluating it.
C28_Witness ==
    /\ m_errors # <<>>
    /\ HasError(q_expr[1])
    /\ ErrorTokenEmitted
    /\ m_evaluated = <<>>

-----------------------------------------------------------------------------
(* Claims about couch-lang comments *)

\* The char at position p of the text (1-based), "" past its end.
TextAt(p) == IF p <= Len(text) THEN text[p] ELSE ""

\* The first position from p on where the text holds c and then d, or one past
\* the end of the text.
RECURSIVE FirstPair(_, _, _)
FirstPair(p, c, d) ==
    IF p > Len(text) \/ (TextAt(p) = c /\ TextAt(p + 1) = d) THEN p
    ELSE FirstPair(p + 1, c, d)

\* The first position from p on where the text holds a line feed, or one past
\* the end of the text.
RECURSIVE FirstLineFeed(_)
FirstLineFeed(p) ==
    IF p > Len(text) \/ TextAt(p) = "\n" THEN p ELSE FirstLineFeed(p + 1)

\* The positions of the chars of comments from position p on, p being outside
\* a comment: `//` up to the next line feed or the end, `/*` up to and
\* including the first `*/` after it, or the end; `/=` is no comment.
RECURSIVE CommentChars(_)
CommentChars(p) ==
    CASE p > Len(text) -> {}
      [] p <= Len(text) /\ TextAt(p) = "/" /\ TextAt(p + 1) = "/" ->
             p..(FirstLineFeed(p + 2) - 1) \cup CommentChars(FirstLineFeed(p + 2))
      [] p <= Len(text) /\ TextAt(p) = "/" /\ TextAt(p + 1) = "*" ->
             (p..(FirstPair(p + 2, "*", "/") + 1) \cap 1..Len(text))
                 \cup CommentChars(FirstPair(p + 2, "*", "/") + 2)
      [] p <= Len(text) /\ TextAt(p) = "/" /\ TextAt(p + 1) = "=" -> CommentChars(p + 2)
      [] OTHER -> CommentChars(p + 1)

\* The positions of the chars of token number k.
TokenChars(k) == (tokens[k].index + 1)..(tokens[k].index + tokens[k].length)

\* The positions between token number k - 1, or the start of the text, and
\* position `to`.
Skipped(k, to) == (IF k = 1 THEN 1 ELSE tokens[k - 1].index + tokens[k - 1].length + 1)..to

\* The chars at these positions are comments and line feeds.
NothingLexable(ps) == \A p \in ps : p \in CommentChars(1) \/ text[p] = "\n"

\* A token that starts at a `/` is SlashEqual before `=` and Slash otherwise,
\* and no other token is one of these.
SlashLexed(k) ==
    IF TextAt(tokens[k].index + 1) = "/"
    THEN IF TextAt(tokens[k].index + 2) = "="
         THEN tokens[k].variant = "SlashEqual" /\ tokens[k].length = 2
         ELSE tokens[k].variant = "Slash" /\ tokens[k].length = 1
    ELSE tokens[k].variant \notin {"Slash", "SlashEqual"}

\* C23: no token is produced from the chars of a comment: `//` skips up to
\* the next line feed or the end of input, `/*` up to and including the first
\* `*/` after it, with no nesting; the token returned is the first token
\* after the comment; `/=` is SlashEqual and any other `/` Slash; a comment
\* that runs to the end of input ends the token stream with no token.
C23_CommentsSkipped ==
    /\ \A k \in 1..Len(tokens) :
          /\ TokenChars(k) \cap CommentChars(1) = {}
          /\ NothingLexable(Skipped(k, tokens[k].index))
          /\ SlashLexed(k)
    /\ exhausted => NothingLexable(Skipped(Len(tokens) + 1, Len(text)))

\* `/*/*/5`: the comment is closed by the first `*/` after `/*`, not by `/*/`,
\* and the Integer after it is the only token.
C23_Witness ==
    /\ text = <<"/", "*", "/", "*", "/", "5">>
    /\ exhausted
    /\ Len(tokens) = 1
    /\ tokens[1].variant = "Integer"
    /\ tokens[1].index = 5

-----------------------------------------------------------------------------
(* Claims about riara strings *)

\* The position (1-based) of the quote that closes a string whose chars begin
\* at position p, a backslash taking the char after it along; one past the
\* end of the text if none does.
RECURSIVE ClosingQuote(_)
ClosingQuote(p) ==
    CASE p > Len(text) -> Len(text) + 1
      [] p <= Len(text) /\ text[p] = "\\" -> ClosingQuote(p + 2)
      [] p <= Len(text) /\ text[p] = "\"" -> p
      [] OTHER -> ClosingQuote(p + 1)

\* Token number k starts at an opening quote.
IsQuoted(k) ==
    /\ r_tokens[k].pos.index < Len(text)
    /\ text[r_tokens[k].pos.index + 1] = "\""

\* The Lexer errors recorded at the pos.
ErrorsAt(pos) == {j \in 1..Len(r_errors) : r_errors[j].pos = pos}

\* C24: after an opening quote a backslash consumes the char after it without
\* ending the string; the first unescaped quote ends a String token whose
\* span includes both quotes; if the input ends before it, also directly
\* after a backslash, the lexer emits one Error token from the opening quote
\* to the end of input and records exactly one Lexer error for it.
C24_Strings ==
    \A k \in 1..Len(r_tokens) :
        IsQuoted(k) =>
            IF ClosingQuote(r_tokens[k].pos.index + 2) <= Len(text)
            THEN /\ r_tokens[k].token_type = "String"
                 /\ r_tokens[k].length
                      = ClosingQuote(r_tokens[k].pos.index + 2) - r_tokens[k].pos.index
                 /\ ErrorsAt(r_tokens[k].pos) = {}
            ELSE /\ r_tokens[k].token_type = "Error"
                 /\ r_tokens[k].pos.index + r_tokens[k].length = Len(text)
                 /\ Cardinality(ErrorsAt(r_tokens[k].pos)) = 1
                 /\ \A j \in (k + 1)..Len(r_tokens) : r_tokens[j].token_type = "Eof"

\* The text of a quote, a backslash and two quotes is one String token of four
\* chars.
C24_Witness ==
    /\ text = <<"\"", "\\", "\"", "\"">>
    /\ Len(r_tokens) = 2
    /\ r_tokens[1].token_type = "String"
    /\ r_tokens[1].length = 4

-----------------------------------------------------------------------------
(* Claims about couch-lang assignment targets *)

\* The node is an Identifier expression made of an Identifier token.
IsIdentifierTarget(node) ==
    /\ node.value.kind = "Identifier"
    /\ \E j \in 1..Len(p_tokens) :
           /\ PositionOf(p_tokens[j]) = node.position
           /\ p_tokens[j].variant = "Identifier"

\* No Assignment parsed has a left side that is not an Identifier expression.
AssignmentTargets ==
    \A k \in 1..Len(p_parsed) :
        p_parsed[k].value.kind = "Assignment" => IsIdentifierTarget(p_parsed[k].value.left)

\* No Let parsed binds a name that is not an identifier token.
LetTargets ==
    \A k \in 1..Len(p_parsed) :
        p_parsed[k].value.kind = "Let" => IsIdentifierTarget(p_parsed[k].value.identifier)

\* C26: a statement whose left side of an assignment operator is not an
\* Identifier expression, or a `let` whose bound name is not an identifier
\* token, is parsed as Statement::Error, never as an Assignment or a Let with
\* a target that is not an identifier.
C26_IdentifierTargets == AssignmentTargets /\ LetTargets

-----------------------------------------------------------------------------
(* Claims about couch-lang compound assignment *)

\* The binding the identifier had before the last statement, as an Option.
FoundBefore(identifier) ==
    Lookup(c_before.outer_context, c_before.inner_context, identifier)

\* The value an expression had before the last statement.
ValueBefore(expression) ==
    EvaluateExpression(expression, c_before.outer_context, c_before.inner_context)

\* The statement is `x op= e` with op one of + - * / and x bound, before it,
\* to a mutable value.
IsCompoundOnMutable(statement) ==
    /\ statement.value.kind = "Assignment"
    /\ statement.value.variant \in ArithmeticVariants
    /\ statement.value.left.value.kind = "Identifier"
    /\ FoundBefore(statement.value.left.value.name) # <<>>
    /\ FoundBefore(statement.value.left.value.name)[1].type = "Value"
    /\ FoundBefore(statement.value.left.value.name)[1].mutable

\* The two values are both Integer or both Float.
SameNumberKind(l, r) ==
    /\ l.kind = r.kind
    /\ l.kind \in {"Integer", "Float"}

\* The last statement has yielded a runtime error value and has left both
\* contexts as they were.
YieldedErrorOnly ==
    /\ c_panic = <<>>
    /\ c_result # <<>>
    /\ c_result[1].kind = "Error"
    /\ Contexts(outer_context, inner_context) = c_before

\* C27: a compound assignment `x op= e` to a mutable binding whose value and
\* right-hand value are not both Integer or both Float yields a runtime error
\* value, never a panic, and leaves the binding of x unchanged.
C27_MismatchIsError ==
    \A k \in 1..Len(c_statements) :
        (/\ k = Len(c_statements)
         /\ IsCompoundOnMutable(c_statements[k])
         /\ ValueBefore(c_statements[k].value.right).kind # "Panic"
         /\ ~SameNumberKind(FoundBefore(c_statements[k].value.left.value.name)[1].value,
                            ValueBefore(c_statements[k].value.right))) =>
            YieldedErrorOnly

\* The expression `x op e` of the statement `x op= e`.
AsBinary(statement) ==
    Node([kind |-> "Binary", left |-> statement.value.left,
          right |-> statement.value.right, variant |-> statement.value.variant],
         statement.position)

\* The statement is `x op= b` for an integer literal b, not 0 under /, and x
\* bound, before it, to a mutable Integer.
IsIntegerCompound(statement) ==
    /\ IsCompoundOnMutable(statement)
    /\ FoundBefore(statement.value.left.value.name)[1].value.kind = "Integer"
    /\ statement.value.right.value.kind = "Integer"
    /\ statement.value.variant = "Division" => statement.value.right.value.v # 0

\* C29: for a mutable binding x holding an integer and an integer b (not 0
\* for /), the value of x after `x op= b` equals the value of the expression
\* `x op b` evaluated in the state before the assignment.
C29_AgreesWithBinary ==
    \A k \in 1..Len(c_statements) :
        (k = Len(c_statements) /\ IsIntegerCompound(c_statements[k])) =>
            /\ c_panic = <<>>
            /\ OperandValue(c_statements[k].value.left)
                 = ValueBefore(AsBinary(c_statements[k]))

-----------------------------------------------------------------------------
(* Claims about riara token positions *)

\* The token carries the line and the column of its first char, counted from
\* the text.
AtItsLineAndColumn(token) ==
    /\ token.pos.line = 1 + LineFeeds(Before(text, token.pos.index))
    /\ token.pos.col = 1 + AfterLastLineFeed(Before(text, token.pos.index))

\* C30: each token of the riara lexer carries line = 1 + the number of line
\* feeds before its first char and column = 1 + the number of chars between
\* the last line feed before it (or the start of input) and its first char; a
\* token that starts directly after a line feed has column 1.  Eof, which has
\* no first char, is left aside.
C30_LineAndColumn ==
    \A k \in 1..Len(r_tokens) :
        r_tokens[k].token_type # "Eof" => AtItsLineAndColumn(r_tokens[k])

=============================================================================
